---- MODULE Spec2Model ----
(***************************************************************************)
(* TEProf2: the per-contig interval index (GenomeIntervalHandler), the TE  *)
(* annotation engine built on it (TEAnnotator), the expression quantifier  *)
(* (ExpressionQuantifier) and the batch run over the samples of a          *)
(* population (examples/batch_ambrosia_population.py).                     *)
(*                                                                         *)
(* A GenomicInterval is a record; an IntervalTree is the set of the        *)
(* intervals it holds (intervaltree keeps a set of Interval(begin, end,    *)
(* data) and drops an Interval equal to one it already holds); a name is   *)
(* the sequence of the labels of the string split at its commas, so that   *)
(* the join "a,b" is <<"a", "b">>; a dict is a function.                   *)
(***************************************************************************)
EXTENDS Integers, Sequences, FiniteSets, TLC

\* ------------------------------------------------------------- bounds

\* Coordinates offered to the index operations: -1 .. MaxCoord.
MaxCoord == 2
\* Intervals the statistics of an index may account for.
MaxAdds == 2

\* Coordinates offered to the index when intervals are merged: 0 .. MaxPos.
MaxPos == 3
\* Intervals stored before a merge.
MaxMerged == 3
\* The gap argument of merge_intervals: 0 .. MaxGap.
MaxGap == 1

\* The window argument of _check_te_promoter, when given: 0 .. MaxWindow.
MaxWindow == 1

\* Rows of a GTF file handed to annotate_gtf.
MaxRows == 2

\* Transcript rows of the GTF file an ExpressionQuantifier loads.
MaxTranscripts == 2

\* Valid samples of a batch run.
MaxSamples == 2

\* Rows of the first contig of a TE reference file.
MaxBedRows == 2

\* ------------------------------------------------------------- inputs

Contigs == {"c1", "c2"}
ValidStrands == {"+", "-", "."}
Strands == ValidStrands \cup {"x"}
\* strand: Optional[str] = None
None == "<None>"
StrandFilters == ValidStrands \cup {None}
Starts == (0 - 1)..MaxCoord
Ends == 0..MaxCoord
EmptyDict == << >>
\* (strand, name, score) of the intervals that are merged: both strands,
\* two names and two scores.
Payloads == {<<"+", <<"a">>, 0>>, <<"+", <<"b">>, 1>>, <<"-", <<"a">>, 1>>}
Gaps == 0..MaxGap
\* def _check_te_promoter(..., window: int = 2000)
DefaultWindow == 2000
Windows == 0..MaxWindow
\* The columns of the TE reference (BED) rows: (strand, name, score).
BedPayloads == Payloads

\* -------------------------------------------------- GenomicInterval

\* Mutant of post_init: an empty range (end = start) passes.
post_init_allows_empty(start, end, strand) ==
    IF start < 0 THEN "ValueError: negative start"
    ELSE IF end < start THEN "ValueError: end <= start"
    ELSE IF strand \notin {"+", "-", "."} THEN "ValueError: invalid strand"
    ELSE "ok"

\* GenomicInterval.__post_init__: the three checks, in order.
post_init(start, end, strand) ==
    IF start < 0 THEN "ValueError: negative start"
    ELSE IF end <= start THEN "ValueError: end <= start"
    ELSE IF strand \notin {"+", "-", "."} THEN "ValueError: invalid strand"
    ELSE "ok"

\* The dataclass constructor's fields.
GenomicInterval(chrom, start, end, strand, name, score, metadata) ==
    [chrom |-> chrom, start |-> start, end |-> end, strand |-> strand,
     name |-> name, score |-> score, metadata |-> metadata]

\* Mutant of length: the end counted as inclusive.
length_inclusive(iv) == iv.end - iv.start + 1

\* GenomicInterval.length
length(iv) == iv.end - iv.start

\* ---------------------------------------------- GenomeIntervalHandler

\* dict.get(key, default) on the two defaultdicts: a miss creates no entry.
get(d, key, default) == IF key \in DOMAIN d THEN d[key] ELSE default

\* d[key] = value
put(d, key, value) ==
    [k \in DOMAIN d \cup {key} |-> IF k = key THEN value ELSE d[k]]

\* del d[key]
del(d, key) == [k \in DOMAIN d \ {key} |-> d[k]]

ZeroStats == [count |-> 0, total_bp |-> 0]

\* GenomeIntervalHandler.__init__
NewHandler(v) == [validate |-> v, intervals |-> EmptyDict, contig_stats |-> EmptyDict]

\* add_interval's update of the running statistics of one contig.
update_stats(st, interval) ==
    [count |-> st.count + 1, total_bp |-> st.total_bp + length(interval)]

\* Mutant of add_interval: validation only when the handler was built with
\* validate = True.
add_interval_if_validate(h, chrom, start, end, strand, name, score, metadata) ==
    LET err == IF h.validate THEN post_init(start, end, strand) ELSE "ok"
        interval == GenomicInterval(chrom, start, end, strand, name, score, metadata)
    IN  IF err # "ok"
        THEN [h |-> h, raised |-> err]
        ELSE [h |-> [h EXCEPT
                      !.intervals = put(@, chrom, get(@, chrom, {}) \cup {interval}),
                      !.contig_stats = put(@, chrom, update_stats(get(@, chrom, ZeroStats), interval))],
              raised |-> "ok"]

\* GenomeIntervalHandler.add_interval: the handler afterwards and what the
\* call raised. The interval is constructed, and so validated, before the
\* handler is touched; self.validate is not consulted.
add_interval(h, chrom, start, end, strand, name, score, metadata) ==
    LET err == post_init(start, end, strand)
        interval == GenomicInterval(chrom, start, end, strand, name, score, metadata)
    IN  IF err # "ok"
        THEN [h |-> h, raised |-> err]
        ELSE [h |-> [h EXCEPT
                      !.intervals = put(@, chrom, get(@, chrom, {}) \cup {interval}),
                      !.contig_stats = put(@, chrom, update_stats(get(@, chrom, ZeroStats), interval))],
              raised |-> "ok"]

\* Mutant of overlap: the ranges taken as closed, so that touching ranges
\* overlap.
overlap_closed(tree, begin, end) ==
    IF begin >= end THEN {}
    ELSE {iv \in tree : iv.start <= end /\ iv.end >= begin}

\* IntervalTree.overlap(begin, end): empty for begin >= end, else the
\* intervals with iv.begin < end and iv.end > begin.
overlap(tree, begin, end) ==
    IF begin >= end THEN {}
    ELSE {iv \in tree : iv.start < end /\ iv.end > begin}

\* The strand filter of find_overlaps, get_contig_intervals.
strand_filter(ivs, strand) ==
    IF strand # None THEN {iv \in ivs : iv.strand = strand} ELSE ivs

\* Mutant of find_overlaps: a contig without a tree falls back to the trees
\* of all contigs.
find_overlaps_any_contig(h, chrom, start, end, strand) ==
    LET tree == get(h.intervals, chrom, UNION {h.intervals[c] : c \in DOMAIN h.intervals})
    IN  IF tree = {} THEN {}
        ELSE strand_filter(overlap(tree, start, end), strand)

\* GenomeIntervalHandler.find_overlaps: the set of the returned list (its
\* order is the iteration order of a Python set).
find_overlaps(h, chrom, start, end, strand) ==
    LET tree == get(h.intervals, chrom, {})
    IN  IF tree = {} THEN {}
        ELSE strand_filter(overlap(tree, start, end), strand)

\* GenomeIntervalHandler.get_contig_intervals
get_contig_intervals(h, chrom, strand) ==
    strand_filter(get(h.intervals, chrom, {}), strand)

\* GenomeIntervalHandler.get_contig_stats
get_contig_stats(h, chrom) == get(h.contig_stats, chrom, ZeroStats)

\* GenomeIntervalHandler.get_contigs
get_contigs(h) == DOMAIN h.intervals

\* GenomeIntervalHandler.has_contig: self._intervals[chrom] is evaluated
\* only when chrom is a key.
has_contig(h, chrom) == chrom \in DOMAIN h.intervals /\ h.intervals[chrom] # {}

RECURSIVE SumLen(_, _)
\* sum(len(tree) for tree in self._intervals.values())
SumLen(d, keys) ==
    IF keys = {} THEN 0
    ELSE LET k == CHOOSE x \in keys : TRUE
         IN  Cardinality(d[k]) + SumLen(d, keys \ {k})

\* GenomeIntervalHandler.count_intervals
count_intervals(h, chrom) ==
    IF chrom = None THEN SumLen(h.intervals, DOMAIN h.intervals)
    ELSE Cardinality(get(h.intervals, chrom, {}))

\* Mutant of the lookup of the read operations: d[key] on a defaultdict,
\* which stores the default under a key it misses.
after_getitem(d, key, default) ==
    IF key \in DOMAIN d THEN d ELSE put(d, key, default)

\* The dictionary after d.get(key, default), the lookup the read
\* operations use on the two defaultdicts: nothing is stored.
after_get(d, key, default) == d

\* The handler after a read operation looked chrom up in self._intervals.
after_read(h, chrom) ==
    [h EXCEPT !.intervals = after_get(@, chrom, {})]

\* Mutant of clear: the statistics of the contig are kept.
clear_trees_only(h, chrom) ==
    IF chrom = None
    THEN [h EXCEPT !.intervals = EmptyDict, !.contig_stats = EmptyDict]
    ELSE IF chrom \in DOMAIN h.intervals
         THEN [h EXCEPT !.intervals = del(@, chrom)]
         ELSE h

\* GenomeIntervalHandler.clear
clear(h, chrom) ==
    IF chrom = None
    THEN [h EXCEPT !.intervals = EmptyDict, !.contig_stats = EmptyDict]
    ELSE IF chrom \in DOMAIN h.intervals
         THEN [h EXCEPT !.intervals = del(@, chrom), !.contig_stats = del(@, chrom)]
         ELSE h

max(a, b) == IF a >= b THEN a ELSE b

\* {**a, **b}
dict_union(a, b) ==
    [k \in DOMAIN a \cup DOMAIN b |-> IF k \in DOMAIN b THEN b[k] ELSE a[k]]

\* [interval_obj.data for interval_obj in ...]: the lists an iteration over
\* a Python set can yield, one for each order.
RECURSIVE iteration_orders(_)
iteration_orders(ivs) ==
    IF ivs = {} THEN {<< >>}
    ELSE UNION {{<<m>> \o rest : rest \in iteration_orders(ivs \ {m})} : m \in ivs}

\* Mutant of sorted_by_start: the list is left in the tree's iteration
\* order, the sort forgotten.
unsorted(ivs) == iteration_orders(ivs)

\* intervals.sort(key=lambda x: x.start): every list the stable sort can
\* yield. The list sorted is in the iteration order of the tree's set, so
\* intervals of equal start come in any order.
RECURSIVE sorted_by_start(_)
sorted_by_start(ivs) ==
    IF ivs = {} THEN {<< >>}
    ELSE UNION {{<<m>> \o rest : rest \in sorted_by_start(ivs \ {m})} :
                   m \in {x \in ivs : \A y \in ivs : x.start <= y.start}}

\* Mutant of should_merge: touching and gap-distant intervals are kept
\* apart (< for <=).
should_merge_strict(current, next_interval, gap) ==
    next_interval.start < current.end + gap

\* merge_intervals: the test that extends the current interval.
should_merge(current, next_interval, gap) ==
    next_interval.start <= current.end + gap

\* merge_intervals: the interval that replaces current on a merge.
merge_pair(current, next_interval) ==
    GenomicInterval(current.chrom, current.start,
                    max(current.end, next_interval.end), current.strand,
                    current.name \o next_interval.name,
                    max(current.score, next_interval.score),
                    dict_union(current.metadata, next_interval.metadata))

\* Mutant of merge_loop: the next interval is compared with the end of the
\* interval before it, not with the end of the merged run.
RECURSIVE merge_loop_prev(_, _, _, _, _)
merge_loop_prev(prev, current, rest, merged, gap) ==
    IF rest = << >> THEN Append(merged, current)
    ELSE LET next_interval == Head(rest)
         IN  IF next_interval.start <= prev.end + gap
             THEN merge_loop_prev(next_interval, merge_pair(current, next_interval),
                                  Tail(rest), merged, gap)
             ELSE merge_loop_prev(next_interval, next_interval, Tail(rest),
                                  Append(merged, current), gap)

merge_loop_previous_end(current, rest, merged, gap) ==
    merge_loop_prev(current, current, rest, merged, gap)

\* merge_intervals: the loop over intervals[1:] and the final append.
RECURSIVE merge_loop(_, _, _, _)
merge_loop(current, rest, merged, gap) ==
    IF rest = << >> THEN Append(merged, current)
    ELSE LET next_interval == Head(rest)
         IN  IF should_merge(current, next_interval, gap)
             THEN merge_loop(merge_pair(current, next_interval), Tail(rest), merged, gap)
             ELSE merge_loop(next_interval, Tail(rest), Append(merged, current), gap)

\* GenomeIntervalHandler.merge_intervals: the lists the call can return,
\* one for each order the sort can leave intervals of equal start in.
merge_intervals(h, chrom, strand, gap) ==
    LET tree == get(h.intervals, chrom, {})
        intervals == get_contig_intervals(h, chrom, strand)
    IN  IF tree = {} THEN {<< >>}
        ELSE IF intervals = {} THEN {<< >>}
        ELSE {merge_loop(Head(sorted), Tail(sorted), << >>, gap) :
                  sorted \in sorted_by_start(intervals)}

\* A fresh index holding the intervals of a list, inserted in list order.
RECURSIVE insert_all(_, _)
insert_all(h, ivs) ==
    IF ivs = << >> THEN h
    ELSE LET iv == Head(ivs)
         IN  insert_all(add_interval(h, iv.chrom, iv.start, iv.end, iv.strand,
                                     iv.name, iv.score, iv.metadata).h,
                        Tail(ivs))

\* ------------------------------------------------------- TEAnnotator

\* An attribute string (GTF column 9) is the sequence of its items, the
\* pieces between semicolons, stripped; an item is the sequence of its
\* parts, item.split(None, 1): none for a blank item, the key alone, or the
\* key and the rest, a text with or without quotes around it.
Quoted(text) == [quoted |-> TRUE, text |-> text]
Bare(text) == [quoted |-> FALSE, text |-> text]

AttributeStrings ==
    { << <<"transcript_id", Quoted("TX1")>>, <<"gene_id", Quoted("G1")>>,
         <<"gene_name", Quoted("N1")>> >>,
      << <<"transcript_id", Quoted("TX1")>>, <<"gene_id", Bare("G1")>>, << >> >>,
      << <<"gene_name", Quoted("N1")>>, <<"tag">>, <<"gene_name", Quoted("N2")>> >>,
      << >> }

\* value.strip('"').strip("'")
strip_quotes(value) == value.text

RECURSIVE parse_items(_, _)
\* parse_gtf_attributes: the loop over the items, attributes being the
\* dictionary built so far.
parse_items(items, attributes) ==
    IF items = << >> THEN attributes
    ELSE LET parts == Head(items)
         IN  parse_items(Tail(items),
                 IF Len(parts) = 2 THEN put(attributes, parts[1], strip_quotes(parts[2]))
                 ELSE IF Len(parts) = 1 THEN put(attributes, parts[1], "")
                 ELSE attributes)

\* parse_gtf_attributes(attr_string)
parse_gtf_attributes(attr_string) == parse_items(attr_string, EmptyDict)

\* The attribute column, parsed, of the GTF rows.
AttributeDicts == {parse_gtf_attributes(a) : a \in AttributeStrings}

\* The transcript rows of the GTF: start 1-based, end inclusive;
\* attributes_dict is the attribute column parsed (_read_gtf).
TranscriptRows ==
    {r \in {[seqname |-> c, start |-> s, end |-> e, strand |-> d, attribute |-> a,
             attributes_dict |-> parse_gtf_attributes(a)] :
                c \in Contigs, s \in 1..MaxCoord, e \in 1..MaxCoord,
                d \in ValidStrands, a \in AttributeStrings} :
        r.start <= r.end}

\* The attribute column of a row whose ninth field is empty or absent:
\* read_csv gives the float NaN, whatever the dtype asked for. It is a
\* value of its own, which no attribute string equals.
NaN == << <<"<NaN>">> >>

\* The rows of a GTF file as read_csv returns them: transcript and exon
\* rows, the attribute column a string or missing.
GtfRows ==
    {[seqname |-> c, feature |-> f, start |-> 1, end |-> 1, strand |-> "+",
      attribute |-> a] :
        c \in Contigs, f \in {"transcript", "exon"},
        a \in {<< <<"transcript_id", Quoted("TX1")>>, <<"gene_id", Quoted("G1")>>,
                  <<"gene_name", Quoted("N1")>> >>, NaN}}

RECURSIVE SeqsUpTo(_, _)
\* The sequences over S of length at most n.
SeqsUpTo(S, n) ==
    IF n = 0 THEN {<< >>}
    ELSE LET shorter == SeqsUpTo(S, n - 1)
         IN  shorter \cup {Append(q, x) : q \in {t \in shorter : Len(t) = n - 1}, x \in S}

\* The GTF files: the sequences of their rows.
GtfFiles == SeqsUpTo(GtfRows, MaxRows)

\* _read_gtf: df["attribute"].apply(parse_gtf_attributes). The function
\* calls attr_string.split, which a NaN does not have: the AttributeError
\* leaves _read_gtf, and no data frame is returned.
read_gtf(gtf) ==
    IF \E i \in DOMAIN gtf : gtf[i].attribute = NaN
    THEN [raised |-> "AttributeError", df |-> << >>]
    ELSE [raised |-> "ok",
          df |-> [i \in DOMAIN gtf |->
                     [seqname |-> gtf[i].seqname, feature |-> gtf[i].feature,
                      start |-> gtf[i].start, end |-> gtf[i].end,
                      strand |-> gtf[i].strand, attribute |-> gtf[i].attribute,
                      attributes_dict |-> parse_gtf_attributes(gtf[i].attribute)]]]

\* Mutant of safe_get_attribute: another sentinel for a missing key.
safe_get_attribute_unknown(attributes, key) == get(attributes, key, "unknown")

\* safe_get_attribute(attributes, key): "None" for a missing key.
safe_get_attribute(attributes, key) == get(attributes, key, "None")

\* Mutant of _check_te_promoter: the TEs of both strands count.
check_te_promoter_any_strand(h, chrom, tss, strand, window) ==
    LET promoter_start == IF strand = "+" THEN max(0, tss - window) ELSE tss
        promoter_end == IF strand = "+" THEN tss ELSE tss + window
    IN  find_overlaps(h, chrom, promoter_start, promoter_end, None) # {}

\* TEAnnotator._check_te_promoter on the handler of the TEs.
check_te_promoter(h, chrom, tss, strand, window) ==
    LET promoter_start == IF strand = "+" THEN max(0, tss - window) ELSE tss
        promoter_end == IF strand = "+" THEN tss ELSE tss + window
    IN  find_overlaps(h, chrom, promoter_start, promoter_end, strand) # {}

RECURSIVE join_names(_)
\* ",".join([te.name for te in te_overlaps])
join_names(tes) ==
    IF tes = << >> THEN << >> ELSE Head(tes).name \o join_names(Tail(tes))

\* TEAnnotator._annotate_transcript: the annotation of a row, te_overlaps
\* being the list find_overlaps returned.
annotate_transcript(h, transcript_row, te_overlaps) ==
    LET chrom == transcript_row.seqname
        start == transcript_row.start
        end == transcript_row.end
        strand == transcript_row.strand
        attrs == transcript_row.attributes_dict
    IN  [transcript_id |-> safe_get_attribute(attrs, "transcript_id"),
         gene_id |-> safe_get_attribute(attrs, "gene_id"),
         gene_name |-> safe_get_attribute(attrs, "gene_name"),
         chrom |-> chrom, start |-> start, end |-> end, strand |-> strand,
         n_te_overlaps |-> Len(te_overlaps),
         te_names |-> IF te_overlaps # << >> THEN join_names(te_overlaps) ELSE <<"None">>,
         has_te_promoter |-> check_te_promoter(h, chrom, start, strand, DefaultWindow)]

\* The contigs of the tabix index of the TE reference, in the order of
\* tbx.contigs.
TabixContigs == <<"c1", "c2">>

\* row.split("\t") of the rows tbx.fetch(contig) yields: the fields chrom,
\* start, end and, in a row of six fields, name, score, strand. A valid
\* row of six fields, one of three, an empty and an inverted range, an
\* unknown strand code, a negative start, and a second valid row.
BedRowsOf(contig) ==
    {<<contig, 0, 1, <<"a">>, 0, "+">>,
     <<contig, 0, 2>>,
     <<contig, 1, 1, <<"a">>, 0, "+">>,
     <<contig, 2, 1, <<"a">>, 0, "+">>,
     <<contig, 0, 1, <<"b">>, 0, "x">>,
     <<contig, 0 - 1, 1, <<"b">>, 0, "+">>,
     <<contig, 1, 2, <<"b">>, 1, "-">>}

\* The TE reference files: the rows of each contig.
TabixFiles ==
    {[c1 |-> r1, c2 |-> r2] :
         r1 \in SeqsUpTo(BedRowsOf("c1"), MaxBedRows),
         r2 \in SeqsUpTo(BedRowsOf("c2"), 1)}

\* _load_repeatmasker, the body of the loop over the rows of a contig: a
\* row of fewer than six fields and a row with end <= start are passed
\* over; any other is handed to add_interval, whose exception leaves the
\* loop body.
load_record(h, fields) ==
    IF Len(fields) < 6 THEN [h |-> h, raised |-> "ok", outcome |-> "short"]
    ELSE LET chrom == fields[1]
             start == fields[2]
             end == fields[3]
             name == IF Len(fields) > 3 THEN fields[4] ELSE << >>
             score == IF Len(fields) > 4 THEN fields[5] ELSE 0
             strand == IF Len(fields) > 5 THEN fields[6] ELSE "."
             r == add_interval(h, chrom, start, end, strand, name, score, EmptyDict)
         IN  IF end <= start THEN [h |-> h, raised |-> "ok", outcome |-> "empty"]
             ELSE [h |-> r.h, raised |-> r.raised,
                   outcome |-> IF r.raised = "ok" THEN "added" ELSE "rejected"]

\* An optional dictionary file of the configuration: not given (None),
\* given and missing, given and present but not loadable (unreadable, or
\* no pickle), given and loadable.
DictFiles == {"unset", "missing", "unreadable", "good"}

\* What pickle.load gives for a loadable dictionary.
LoadedDict == put(EmptyDict, "c1", "genes")

\* AnnotationConfig.__post_init__: with validate_inputs, a dictionary that
\* is given and does not exist raises FileNotFoundError (rmsk_bed exists).
annotation_config_post_init(config) ==
    IF config.validate_inputs
       /\ \E attr \in {"gencode_plus_dict", "gencode_minus_dict"} : config[attr] = "missing"
    THEN "FileNotFoundError"
    ELSE "ok"

\* _load_gencode_dictionaries, one dictionary: {} when none is given; what
\* open or pickle.load raises is caught, a warning is logged and the
\* mapping is {}.
load_gencode_dictionary(file) ==
    IF file = "unset" THEN [value |-> EmptyDict, warned |-> FALSE]
    ELSE IF file = "good" THEN [value |-> LoadedDict, warned |-> FALSE]
    ELSE [value |-> EmptyDict, warned |-> TRUE]

\* ---------------------------------------------- ExpressionQuantifier

\* A float is the exact number n / d * 10^e, written <<n, d, e>>, in its one
\* normal form: d > 0, n and d without a common factor, d without the
\* factors 2 and 5, n not a multiple of 10; 0 is <<0, 1, 0>>. The rounding
\* of the floating-point operations is left out. The arithmetic is written
\* as functions, whose arguments are values when the body is evaluated.
Floats == Int \X Int \X Int

GCDOf[p \in Int \X Int] == IF p[2] = 0 THEN p[1] ELSE GCDOf[<<p[2], p[1] % p[2]>>]

GCD(a, b) == GCDOf[<<a, b>>]

Abs(x) == IF x < 0 THEN 0 - x ELSE x

\* The normal form of t[1] / t[2] * 10^t[3]; a division by 0 gives
\* <<0, 0, 0>>, as numpy's division gives a value that is not a finite number.
NormOf[t \in Floats] ==
    LET n == t[1]
        d == t[2]
        e == t[3]
        g == GCDOf[<<Abs(n), Abs(d)>>]
    IN  IF d = 0 THEN <<0, 0, 0>>
        ELSE IF n = 0 THEN <<0, 1, 0>>
        ELSE IF d < 0 THEN NormOf[<<0 - n, 0 - d, e>>]
        ELSE IF g > 1 THEN NormOf[<<n \div g, d \div g, e>>]
        ELSE IF d % 2 = 0 THEN NormOf[<<n * 5, d \div 2, e - 1>>]
        ELSE IF d % 5 = 0 THEN NormOf[<<n * 2, d \div 5, e - 1>>]
        ELSE IF n % 10 = 0 THEN NormOf[<<n \div 10, d, e + 1>>]
        ELSE t

Norm(n, d, e) == NormOf[<<n, d, e>>]

\* n / d.
Frac(n, d) == NormOf[<<n, d, 0>>]

Zero == <<0, 1, 0>>

Pow10[k \in Nat] == IF k = 0 THEN 1 ELSE 10 * Pow10[k - 1]

FracAddOf[p \in Floats \X Floats] ==
    LET a == p[1]
        b == p[2]
        e == IF a[3] <= b[3] THEN a[3] ELSE b[3]
        g == GCDOf[<<a[2], b[2]>>]
        x == a[1] * Pow10[a[3] - e] * (b[2] \div g)
        y == b[1] * Pow10[b[3] - e] * (a[2] \div g)
    IN  IF a = Zero THEN b ELSE IF b = Zero THEN a
        ELSE NormOf[<<x + y, (a[2] \div g) * b[2], e>>]

FracAdd(a, b) == FracAddOf[<<a, b>>]

\* a * b, the common factors taken out before the products are formed.
FracMulOf[p \in Floats \X Floats] ==
    LET a == p[1]
        b == p[2]
        x == NormOf[<<a[1], b[2], 0>>]
        y == NormOf[<<b[1], a[2], 0>>]
    IN  IF a = Zero \/ b = Zero THEN Zero
        ELSE NormOf[<<x[1] * y[1], x[2] * y[2], x[3] + y[3] + a[3] + b[3]>>]

FracMul(a, b) == FracMulOf[<<a, b>>]

\* 1 / b.
FracInv[b \in Floats] == NormOf[<<b[2], b[1], 0 - b[3]>>]

\* a / b.
FracDiv(a, b) == FracMulOf[<<a, FracInv[b]>>]

FracNeg[b \in Floats] == <<0 - b[1], b[2], b[3]>>

FracLeq(a, b) == FracAddOf[<<a, FracNeg[b]>>][1] <= 0

\* min_mapq: int = 255
DefaultMinMapq == 255

\* NaN in a column of strings: str.extract found no match.
NoValue == "<nan>"

\* The reads of the BAM files: name, contig, aligned bases [start, end)
\* and mapping quality.
Reads ==
    {[qname |-> "r1", contig |-> "c1", start |-> 0, end |-> 1, mapq |-> 255],
     [qname |-> "r2", contig |-> "c1", start |-> 0, end |-> 2, mapq |-> 255],
     [qname |-> "r3", contig |-> "c1", start |-> 1, end |-> 2, mapq |-> 0]}

\* The BAM files: the reference has the contig c1 and not cU.
BamFiles == {[references |-> {"c1"}, reads |-> rs] : rs \in SUBSET Reads}

\* pysam's check of a region: an unknown contig or start > stop raises
\* ValueError.
valid_region(bam, contig, start, stop) ==
    contig \in bam.references /\ start >= 0 /\ start <= stop

\* Mutant of _filter_read: with a stranded library a read counts only for
\* a transcript of its own orientation.
filter_read_by_strand(read, transcript_strand, min_mapq, stranded) ==
    IF read.mapq < min_mapq THEN FALSE
    ELSE IF stranded /\ transcript_strand \in {"+", "-"}
    THEN (transcript_strand = "-") = read.is_reverse
    ELSE TRUE

\* ExpressionQuantifier._filter_read
filter_read(read, transcript_strand, min_mapq, stranded) ==
    IF read.mapq < min_mapq THEN FALSE ELSE TRUE

\* self.bam.count(contig, start, stop, read_callback): the reads that
\* overlap [start, stop) and pass the callback.
bam_count(bam, contig, start, stop, strand, min_mapq, stranded) ==
    IF ~valid_region(bam, contig, start, stop)
    THEN [raised |-> "ValueError", value |-> 0]
    ELSE [raised |-> "ok",
          value |-> Cardinality({r \in bam.reads :
                        /\ r.contig = contig /\ r.start < stop /\ r.end > start
                        /\ filter_read(r, strand, min_mapq, stranded)})]

\* The depth of a pileup column: the reads aligned over the position.
depth(bam, contig, pos) ==
    Cardinality({r \in bam.reads : r.contig = contig /\ r.start <= pos /\ pos < r.end})

RECURSIVE SumOver(_, _, _)
\* The sum of f[x] over the elements x of S.
SumOver(f, S, zero) ==
    IF S = {} THEN zero
    ELSE LET x == CHOOSE y \in S : TRUE
         IN  f[x] + SumOver(f, S \ {x}, zero)

\* The attribute strings of the GTF files the quantifier loads: two
\* transcripts of the gene (G1, N1), a transcript of G2 that has no
\* gene_name, and a transcript that has no gene_id.
QuantAttributes ==
    { << <<"transcript_id", Quoted("T1")>>, <<"gene_id", Quoted("G1")>>,
         <<"gene_name", Quoted("N1")>> >>,
      << <<"transcript_id", Quoted("T2")>>, <<"gene_id", Quoted("G1")>>,
         <<"gene_name", Quoted("N1")>> >>,
      << <<"transcript_id", Quoted("T3")>>, <<"gene_id", Quoted("G2")>> >>,
      << <<"transcript_id", Quoted("T4")>>, <<"gene_name", Quoted("N1")>> >> }

\* The rows of those files: transcripts of one and two bases on the contig
\* of the BAM file and on a contig it does not have, a transcript row whose
\* end lies before its start, and an exon row.
QuantRows ==
    {[seqname |-> c, feature |-> "transcript", start |-> 1, end |-> e,
      strand |-> "+", attribute |-> a] :
        c \in {"c1", "cU"}, e \in 1..2, a \in QuantAttributes}
    \cup
    {[seqname |-> "c1", feature |-> f[1], start |-> f[2], end |-> f[3],
      strand |-> "+",
      attribute |-> << <<"transcript_id", Quoted("T1")>>, <<"gene_id", Quoted("G1")>>,
                       <<"gene_name", Quoted("N1")>> >>] :
        f \in {<<"transcript", 2, 0>>, <<"exon", 1, 1>>}}

\* A file read_csv cannot parse (a start that is not an integer).
Unparseable == [parseable |-> FALSE, rows |-> << >>]

\* The GTF files: the rows, at least one, of a file read_csv parses, and
\* the file it cannot parse.
QuantGtfFiles ==
    {[parseable |-> TRUE, rows |-> rows] :
        rows \in SeqsUpTo(QuantRows, MaxTranscripts) \ {<< >>}}
    \cup {Unparseable}

RECURSIVE extract(_, _)
\* transcripts["attribute"].str.extract(r'key "([^"]+)"'): the text in
\* quotes of the first item of that key, NaN when there is none.
extract(attr_string, key) ==
    IF attr_string = << >> THEN NoValue
    ELSE LET parts == Head(attr_string)
         IN  IF /\ Len(parts) = 2 /\ parts[1] = key
                /\ parts[2].quoted /\ parts[2].text # ""
             THEN parts[2].text
             ELSE extract(Tail(attr_string), key)

\* _load_gtf: transcripts["end"] - transcripts["start"] + 1
transcript_length(row) == row.end - row.start + 1

\* ExpressionQuantifier._load_gtf
load_gtf(gtf) ==
    IF ~gtf.parseable THEN [raised |-> "ValueError", transcripts |-> << >>]
    ELSE LET rows == SelectSeq(gtf.rows, LAMBDA row : row.feature = "transcript")
         IN  [raised |-> "ok",
              transcripts |->
                  [i \in DOMAIN rows |->
                      [seqname |-> rows[i].seqname, start |-> rows[i].start,
                       end |-> rows[i].end, strand |-> rows[i].strand,
                       transcript_id |-> extract(rows[i].attribute, "transcript_id"),
                       gene_id |-> extract(rows[i].attribute, "gene_id"),
                       gene_name |-> extract(rows[i].attribute, "gene_name"),
                       length |-> transcript_length(rows[i])]]]

\* ExpressionQuantifier._calculate_coverage: the mean depth of the pileup
\* columns of [start, end); 0.0 when there is none or the pileup raises.
calculate_coverage(bam, chrom, start, end, strand) ==
    IF ~valid_region(bam, chrom, start, end) THEN Zero
    ELSE LET columns == {pos \in start..(end - 1) : depth(bam, chrom, pos) > 0}
             coverage_sum == SumOver([pos \in columns |-> depth(bam, chrom, pos)], columns, 0)
             positions == Cardinality(columns)
         IN  IF positions = 0 THEN Zero ELSE Frac(coverage_sum, positions)

\* Mutant of the count of _quantify_transcript: the exception of bam.count
\* is not caught and leaves _quantify_transcript.
count_or_raise(counted) == counted

\* _quantify_transcript: try: count = self.bam.count(...) except: count = 0
count_or_zero(counted) ==
    IF counted.raised # "ok" THEN [raised |-> "ok", value |-> 0] ELSE counted

\* ExpressionQuantifier._quantify_transcript. What count and pileup raise
\* is caught inside; nothing else in it raises.
quantify_transcript(bam, min_mapq, stranded, transcript) ==
    LET chrom == transcript.seqname
        start == transcript.start - 1
        end == transcript.end
        strand == transcript.strand
        counted == count_or_zero(bam_count(bam, chrom, start, end, strand, min_mapq, stranded))
    IN  [raised |-> counted.raised,
         quant |-> [transcript_id |-> transcript.transcript_id,
                    gene_id |-> transcript.gene_id,
                    gene_name |-> transcript.gene_name,
                    chrom |-> chrom, start |-> start, end |-> end, strand |-> strand,
                    length |-> transcript.length,
                    count |-> counted.value,
                    coverage |-> calculate_coverage(bam, chrom, start, end, strand)]]

\* quantify_all: the placeholder appended when _quantify_transcript raises.
placeholder(transcript) ==
    [transcript_id |-> transcript.transcript_id, gene_id |-> transcript.gene_id,
     gene_name |-> transcript.gene_name, count |-> 0, tpm |-> Zero, fpkm |-> Zero,
     coverage |-> Zero]

\* The float NaN: a cell of a column a record has no key for, and what
\* arithmetic on it gives.
FloatNaN == <<0, 0, 0>>

RECURSIVE FracSum(_)
\* Series.sum(): the sum of a column, its NaN cells skipped.
FracSum(column) ==
    IF column = << >> THEN Zero
    ELSE IF Head(column) = FloatNaN THEN FracSum(Tail(column))
    ELSE FracAdd(Head(column), FracSum(Tail(column)))

RECURSIVE IntSum(_)
IntSum(column) ==
    IF column = << >> THEN 0 ELSE Head(column) + IntSum(Tail(column))

\* Mutant of the TPM of a row: scaled by the total number of reads.
tpm_of_by_reads(rpk, rpk_sum, total_reads) ==
    IF rpk = FloatNaN THEN FloatNaN
    ELSE FracMul(FracDiv(rpk, Frac(total_reads, 1)), Frac(1000000, 1))

\* (df["rpk"] / rpk_sum) * 1e6, rpk_sum > 0
tpm_of(rpk, rpk_sum, total_reads) ==
    IF rpk = FloatNaN THEN FloatNaN
    ELSE FracMul(FracDiv(rpk, rpk_sum), Frac(1000000, 1))

\* df["rpk"] / (total_reads / 1e6), total_reads > 0
fpkm_of(rpk, total_reads) ==
    IF rpk = FloatNaN THEN FloatNaN
    ELSE FracDiv(rpk, Frac(total_reads, 1000000))

\* ExpressionQuantifier._calculate_normalized_expression on the rows of a
\* data frame. A frame without rows has no columns, and one built of
\* placeholders only has no length column: df["count"], df["length"] raise
\* KeyError.
calculate_normalized_expression(df) ==
    IF df = << >> \/ \A i \in DOMAIN df : "length" \notin DOMAIN df[i]
    THEN [raised |-> "KeyError", df |-> << >>]
    ELSE LET rpk == [i \in DOMAIN df |->
                        IF "length" \in DOMAIN df[i]
                        THEN Frac(df[i].count * 1000, df[i].length)
                        ELSE FloatNaN]
             rpk_sum == FracSum(rpk)
             total_reads == IntSum([i \in DOMAIN df |-> df[i].count])
         IN  [raised |-> "ok",
              df |-> [i \in DOMAIN df |->
                        [k \in DOMAIN df[i] \cup {"tpm", "fpkm"} |->
                            IF k = "tpm"
                            THEN (IF rpk_sum[1] > 0
                                  THEN tpm_of(rpk[i], rpk_sum, total_reads) ELSE Zero)
                            ELSE IF k = "fpkm"
                            THEN (IF total_reads > 0
                                  THEN fpkm_of(rpk[i], total_reads) ELSE Zero)
                            ELSE df[i][k]]]]

\* df[key]: a column of a data frame; NaN where a row has no such key.
Column(df, key) ==
    [i \in DOMAIN df |-> IF key \in DOMAIN df[i] THEN df[i][key] ELSE FloatNaN]

\* The rows of a group of groupby("gene_id").
GeneRows(df, gene_id) == SelectSeq(df, LAMBDA r : r.gene_id = gene_id)

\* The keys of groupby("gene_id"): groupby drops the rows whose key is NaN.
GeneIds(df) == {df[i].gene_id : i \in DOMAIN df} \ {NoValue}

\* Mutant of the fraction: a hard divide.
safe_fraction_hard(value, total) ==
    IF value = FloatNaN \/ total = FloatNaN \/ total[1] = 0 THEN FloatNaN
    ELSE FracDiv(value, total)

\* np.where(total > 0, value / total, 0.0). The total of a row whose gene
\* is not among the groups is NaN, and NaN > 0 is false.
safe_fraction(value, total) ==
    IF total = FloatNaN \/ total[1] <= 0 THEN Zero
    ELSE IF value = FloatNaN THEN FloatNaN
    ELSE FracDiv(value, total)

\* ExpressionQuantifier.calculate_transcript_fraction
calculate_transcript_fraction(transcript_df) ==
    LET gene_count(g) == Frac(IntSum(Column(GeneRows(transcript_df, g), "count")), 1)
        gene_tpm(g) == FracSum(Column(GeneRows(transcript_df, g), "tpm"))
        total(f(_), r) == IF r.gene_id \in GeneIds(transcript_df) THEN f(r.gene_id)
                          ELSE FloatNaN
    IN  [i \in DOMAIN transcript_df |->
            LET r == transcript_df[i]
            IN  [k \in DOMAIN r \cup {"gene_count", "gene_tpm", "count_fraction", "tpm_fraction"} |->
                    IF k = "gene_count" THEN total(gene_count, r)
                    ELSE IF k = "gene_tpm" THEN total(gene_tpm, r)
                    ELSE IF k = "count_fraction"
                    THEN safe_fraction(Frac(r.count, 1), total(gene_count, r))
                    ELSE IF k = "tpm_fraction"
                    THEN safe_fraction(r.tpm, total(gene_tpm, r))
                    ELSE r[k]]]

\* The keys of groupby(["gene_id", "gene_name"]): the rows with a NaN in
\* either key are dropped.
GeneKeys(df) ==
    {<<df[i].gene_id, df[i].gene_name>> : i \in DOMAIN df} \
        {key \in {<<df[i].gene_id, df[i].gene_name>> : i \in DOMAIN df} :
            key[1] = NoValue \/ key[2] = NoValue}

RECURSIVE MaxInt(_)
\* The maximum of a sequence of integers that is not empty.
MaxInt(column) ==
    IF Len(column) = 1 THEN Head(column) ELSE max(Head(column), MaxInt(Tail(column)))

\* df["length"].max(): the maximum of the column, the cells of the rows
\* without a length (NaN) skipped; NaN when no row has one.
MaxLength(rows) ==
    LET measured == SelectSeq(rows, LAMBDA r : "length" \in DOMAIN r)
    IN  IF measured = << >> THEN FloatNaN
        ELSE MaxInt([i \in DOMAIN measured |-> measured[i].length])

\* ExpressionQuantifier.calculate_gene_expression: one row for each group;
\* the rows differ in their keys, and the frame is the set of them.
calculate_gene_expression(transcript_df) ==
    {LET rows == SelectSeq(transcript_df,
                     LAMBDA r : r.gene_id = key[1] /\ r.gene_name = key[2])
     IN  [gene_id |-> key[1], gene_name |-> key[2],
          count |-> IntSum(Column(rows, "count")),
          tpm |-> FracSum(Column(rows, "tpm")),
          fpkm |-> FracSum(Column(rows, "fpkm")),
          length |-> MaxLength(rows)] :
        key \in GeneKeys(transcript_df)}

\* ------------------------------------------------------------- state

VARIABLES
    pc,         \* "index": a handler of its own; "loading", "ready": a TEAnnotator
    handler,    \* the GenomeIntervalHandler (of a TEAnnotator: its rmsk_handler)
    inserted,   \* history: the contigs add_interval ever stored an interval on
    ret,        \* the call in progress: its name, arguments and result (of
                \* add_interval also the handler as the call found it)
    gtf_run,    \* the frame of annotate_gtf while it runs: the file, the
                \* rows read, the position of the loop and the annotations
    quantifier, \* an ExpressionQuantifier and the with-block that uses it:
                \* its configuration, BAM handle, transcripts and results
    batch,      \* the batch run over the samples of a population
    loader,     \* the construction of a TEAnnotator from its configuration:
                \* the position in the TE reference, the dictionaries loaded
    workflow    \* the frame of ambrosia_workflow: its inputs, its position,
                \* the transcripts annotated and the files written

vars == <<pc, handler, inserted, ret, gtf_run, quantifier, batch, loader, workflow>>

\* The state of the construction of an annotator and of the workflow.
load_vars == <<loader, workflow>>

\* The state of the runs built on the index and the annotator.
run_vars == <<gtf_run, quantifier, batch, loader, workflow>>

\* The state of the index and of the annotator.
annotator_vars == <<pc, handler, inserted, ret, gtf_run>>

\* No ExpressionQuantifier is built.
NotBuilt == [pc |-> "none"]

\* No batch is started.
NotStarted == [pc |-> "none"]

\* No TEAnnotator is being constructed from a configuration.
NotLoading == [pc |-> "none"]

\* ambrosia_workflow is not entered.
NotEntered == [pc |-> "none"]

\* annotate_gtf is not running.
NotRunning == [pc |-> "none"]

\* No call in progress: the caller holds no result.
Idle == [op |-> "idle"]

RECURSIVE SumCounts(_, _)
SumCounts(st, cs) ==
    IF cs = {} THEN 0
    ELSE LET c == CHOOSE x \in cs : TRUE
         IN  st[c].count + SumCounts(st, cs \ {c})

\* The number of intervals the statistics account for.
Added(h) == SumCounts(h.contig_stats, DOMAIN h.contig_stats)

\* The bound of the model on the size of the index: no call is in progress
\* and the index accounts for fewer than n intervals.
Room(n) == ret = Idle /\ Added(handler) < n

\* GenomeIntervalHandler(): validate defaults to True.
Init ==
    /\ pc = "index"
    /\ handler = NewHandler(TRUE)
    /\ inserted = {}
    /\ ret = Idle
    /\ gtf_run = NotRunning
    /\ quantifier = NotBuilt
    /\ batch = NotStarted
    /\ loader = NotLoading
    /\ workflow = NotEntered

\* handler.add_interval(chrom, start, end, strand, name, score)
AddInterval(chrom, start, end, strand, name, score) ==
    LET r == add_interval(handler, chrom, start, end, strand, name, score, EmptyDict)
    IN  /\ ret = Idle
        /\ handler' = r.h
        /\ inserted' = IF r.raised = "ok" THEN inserted \cup {chrom} ELSE inserted
        /\ ret' = [op |-> "add_interval", chrom |-> chrom, start |-> start,
                   end |-> end, strand |-> strand, name |-> name, score |-> score,
                   raised |-> r.raised, before |-> handler]
        /\ UNCHANGED pc
        /\ UNCHANGED run_vars

\* handler.find_overlaps(chrom, start, end, strand)
FindOverlaps(chrom, start, end, strand) ==
    /\ ret = Idle
    /\ ret' = [op |-> "find_overlaps", chrom |-> chrom, start |-> start,
               end |-> end, strand |-> strand,
               result |-> find_overlaps(handler, chrom, start, end, strand),
               raised |-> "ok", before |-> handler]
    /\ handler' = after_read(handler, chrom)
    /\ UNCHANGED <<pc, inserted>>
    /\ UNCHANGED run_vars

\* handler.get_contig_stats(chrom)
GetContigStats(chrom) ==
    /\ ret = Idle
    /\ ret' = [op |-> "get_contig_stats", chrom |-> chrom,
               result |-> get_contig_stats(handler, chrom), raised |-> "ok",
               before |-> handler]
    /\ handler' = [handler EXCEPT !.contig_stats = after_get(@, chrom, ZeroStats)]
    /\ UNCHANGED <<pc, inserted>>
    /\ UNCHANGED run_vars

\* handler.clear(chrom)
Clear(chrom) ==
    /\ ret = Idle
    /\ handler' = clear(handler, chrom)
    /\ ret' = [op |-> "clear", chrom |-> chrom, raised |-> "ok", before |-> handler]
    /\ UNCHANGED <<pc, inserted>>
    /\ UNCHANGED run_vars

\* The call returns: the caller takes the result (or the exception) and is
\* free to make its next call. The core is single-threaded and synchronous.
Return ==
    /\ ret # Idle
    /\ ret' = Idle
    /\ UNCHANGED <<pc, handler, inserted>>
    /\ UNCHANGED run_vars

\* The index under insertions that pass validation, overlap and statistics
\* queries (degenerate ranges included) and clear.
Next ==
    \/ \E chrom \in Contigs, start \in Ends, strand \in ValidStrands :
           \E end \in (start + 1)..MaxCoord :
               Room(MaxAdds) /\ AddInterval(chrom, start, end, strand, <<"a">>, 0)
    \/ \E chrom \in Contigs, start \in Ends, end \in Ends, strand \in StrandFilters :
           FindOverlaps(chrom, start, end, strand)
    \/ \E chrom \in Contigs : GetContigStats(chrom)
    \/ \E chrom \in Contigs \cup {None} : Clear(chrom)
    \/ Return

Spec == Init /\ [][Next]_vars

\* GenomeIntervalHandler(validate): either value of the flag.
InitAdd ==
    /\ pc = "index"
    /\ handler \in {NewHandler(v) : v \in BOOLEAN}
    /\ inserted = {}
    /\ ret = Idle
    /\ gtf_run = NotRunning
    /\ quantifier = NotBuilt
    /\ batch = NotStarted
    /\ loader = NotLoading
    /\ workflow = NotEntered

\* The index under insertions of every kind: negative and inverted
\* coordinates, an unknown strand code.
NextAdd ==
    \/ \E chrom \in Contigs, start \in Starts, end \in Ends, strand \in Strands :
           /\ ret = Idle
           /\ post_init(start, end, strand) = "ok" => Room(MaxAdds)
           /\ AddInterval(chrom, start, end, strand, <<"a">>, 0)
    \/ \E chrom \in Contigs : GetContigStats(chrom)
    \/ Return

SpecAdd == InitAdd /\ [][NextAdd]_vars

\* handler.merge_intervals(chrom, strand, gap)
MergeIntervals(chrom, strand, gap) ==
    /\ ret = Idle
    /\ \E merged \in merge_intervals(handler, chrom, strand, gap) :
           ret' = [op |-> "merge_intervals", chrom |-> chrom, strand |-> strand,
                   gap |-> gap, result |-> merged, raised |-> "ok",
                   before |-> handler]
    /\ handler' = after_read(handler, chrom)
    /\ UNCHANGED <<pc, inserted>>
    /\ UNCHANGED run_vars

\* The list a merge returned is inserted into a fresh index, which is
\* merged with the same arguments.
MergeAgain ==
    /\ ret # Idle
    /\ ret.op = "merge_intervals"
    /\ LET fresh == insert_all(NewHandler(TRUE), ret.result)
       IN  \E merged \in merge_intervals(fresh, ret.chrom, ret.strand, ret.gap) :
               ret' = [op |-> "merge_again", chrom |-> ret.chrom,
                       strand |-> ret.strand, gap |-> ret.gap,
                       first |-> ret.result, result |-> merged, raised |-> "ok"]
    /\ UNCHANGED <<pc, handler, inserted>>
    /\ UNCHANGED run_vars

\* One contig filled with intervals of every strand, name and score, then
\* merged.
NextMerge ==
    \/ \E start \in 0..MaxPos, payload \in Payloads :
           \E end \in (start + 1)..MaxPos :
               /\ Room(MaxMerged)
               /\ AddInterval("c1", start, end, payload[1], payload[2], payload[3])
    \/ \E strand \in {None, "+", "-"}, gap \in Gaps :
           MergeIntervals("c1", strand, gap)
    \/ MergeAgain
    \/ Return

SpecMerge == Init /\ [][NextMerge]_vars

\* handler.get_contig_intervals(chrom, strand)
GetContigIntervals(chrom, strand) ==
    /\ ret = Idle
    /\ ret' = [op |-> "get_contig_intervals", chrom |-> chrom, strand |-> strand,
               result |-> get_contig_intervals(handler, chrom, strand),
               raised |-> "ok", before |-> handler]
    /\ handler' = after_read(handler, chrom)
    /\ UNCHANGED <<pc, inserted>>
    /\ UNCHANGED run_vars

\* handler.has_contig(chrom)
HasContig(chrom) ==
    /\ ret = Idle
    /\ ret' = [op |-> "has_contig", chrom |-> chrom,
               result |-> has_contig(handler, chrom), raised |-> "ok",
               before |-> handler]
    /\ handler' = after_read(handler, chrom)
    /\ UNCHANGED <<pc, inserted>>
    /\ UNCHANGED run_vars

\* handler.count_intervals(chrom), handler.count_intervals()
CountIntervals(chrom) ==
    /\ ret = Idle
    /\ ret' = [op |-> "count_intervals", chrom |-> chrom,
               result |-> count_intervals(handler, chrom), raised |-> "ok",
               before |-> handler]
    /\ handler' = IF chrom = None THEN handler ELSE after_read(handler, chrom)
    /\ UNCHANGED <<pc, inserted>>
    /\ UNCHANGED run_vars

\* The index under insertions that pass validation (the same interval may
\* be inserted again), clear, and every read operation.
NextIndex ==
    \/ \E chrom \in Contigs, start \in Ends, strand \in {"+", "-"} :
           \E end \in (start + 1)..MaxCoord :
               Room(MaxAdds) /\ AddInterval(chrom, start, end, strand, <<"a">>, 0)
    \/ \E chrom \in Contigs \cup {None} : Clear(chrom)
    \/ \E chrom \in Contigs, start \in Ends, end \in Ends, strand \in {None, "+"} :
           FindOverlaps(chrom, start, end, strand)
    \/ \E chrom \in Contigs, strand \in {None, "+"} : GetContigIntervals(chrom, strand)
    \/ \E chrom \in Contigs : GetContigStats(chrom)
    \/ \E chrom \in Contigs : HasContig(chrom)
    \/ \E chrom \in Contigs \cup {None} : CountIntervals(chrom)
    \/ \E chrom \in Contigs, strand \in {None, "+"} : MergeIntervals(chrom, strand, 0)
    \/ Return

SpecIndex == Init /\ [][NextIndex]_vars

\* TEAnnotator.__init__ up to the load of the TE reference.
InitAnnot ==
    /\ pc = "loading"
    /\ handler = NewHandler(TRUE)
    /\ inserted = {}
    /\ ret = Idle
    /\ gtf_run = NotRunning
    /\ quantifier = NotBuilt
    /\ batch = NotStarted
    /\ loader = NotLoading
    /\ workflow = NotEntered

\* _load_repeatmasker: one row of the TE reference. A row with end <= start
\* is skipped, any other is inserted.
LoadRow(chrom, start, end, name, score, strand) ==
    /\ pc = "loading"
    /\ ret = Idle
    /\ IF end <= start
       THEN /\ ret' = [op |-> "load_row", chrom |-> chrom, start |-> start,
                       end |-> end, strand |-> strand, name |-> name,
                       score |-> score, raised |-> "skipped"]
            /\ UNCHANGED <<handler, inserted>>
       ELSE LET r == add_interval(handler, chrom, start, end, strand, name, score, EmptyDict)
            IN  /\ Room(MaxAdds)
                /\ handler' = r.h
                /\ inserted' = IF r.raised = "ok" THEN inserted \cup {chrom} ELSE inserted
                /\ ret' = [op |-> "load_row", chrom |-> chrom, start |-> start,
                           end |-> end, strand |-> strand, name |-> name,
                           score |-> score, raised |-> r.raised]
    /\ UNCHANGED pc
    /\ UNCHANGED run_vars

\* TEAnnotator.__init__ returns: the reference is loaded.
FinishLoad ==
    /\ pc = "loading"
    /\ ret = Idle
    /\ pc' = "ready"
    /\ UNCHANGED <<handler, inserted, ret>>
    /\ UNCHANGED run_vars

\* annotate_gtf: self._annotate_transcript(row) for a transcript row.
AnnotateTranscript(transcript_row) ==
    /\ pc = "ready"
    /\ ret = Idle
    /\ \E te_overlaps \in iteration_orders(
               find_overlaps(handler, transcript_row.seqname, transcript_row.start,
                             transcript_row.end, transcript_row.strand)) :
           ret' = [op |-> "annotate_transcript", row |-> transcript_row,
                   annotation |-> annotate_transcript(handler, transcript_row, te_overlaps),
                   raised |-> "ok"]
    /\ UNCHANGED <<pc, handler, inserted>>
    /\ UNCHANGED run_vars

\* self._check_te_promoter(chrom, tss, strand, window), or with the window
\* omitted: self._check_te_promoter(chrom, tss, strand).
CheckTePromoter(chrom, tss, strand, window, given) ==
    /\ pc = "ready"
    /\ ret = Idle
    /\ ret' = [op |-> "check_te_promoter", chrom |-> chrom, tss |-> tss,
               strand |-> strand, window_given |-> given, window |-> window,
               result |-> check_te_promoter(handler, chrom, tss, strand,
                             IF given THEN window ELSE DefaultWindow),
               raised |-> "ok"]
    /\ UNCHANGED <<pc, handler, inserted>>
    /\ UNCHANGED run_vars

\* A TEAnnotator: the TE reference is loaded, then transcripts are
\* annotated and promoters checked.
NextAnnot ==
    \/ \E chrom \in Contigs, start \in Ends, end \in Ends, payload \in BedPayloads :
           LoadRow(chrom, start, end, payload[2], payload[3], payload[1])
    \/ FinishLoad
    \/ \E transcript_row \in TranscriptRows : AnnotateTranscript(transcript_row)
    \/ \E chrom \in Contigs, tss \in Ends, strand \in ValidStrands, window \in Windows :
           CheckTePromoter(chrom, tss, strand, window, TRUE)
    \/ \E chrom \in Contigs, tss \in Ends, strand \in ValidStrands :
           CheckTePromoter(chrom, tss, strand, 0, FALSE)
    \/ Return

SpecAnnot == InitAnnot /\ [][NextAnnot]_vars

\* annotator.annotate_gtf(gtf_path): the call is entered.
AnnotateGtf(gtf) ==
    /\ pc = "ready"
    /\ ret = Idle
    /\ gtf_run = NotRunning
    /\ gtf_run' = [pc |-> "read_gtf", gtf |-> gtf]
    /\ UNCHANGED <<pc, handler, inserted, ret>>
    /\ UNCHANGED <<quantifier, batch, load_vars>>

\* annotate_gtf: gtf_df = self._read_gtf(gtf_path). An exception of
\* _read_gtf leaves annotate_gtf, which catches nothing.
ReadGtf ==
    /\ gtf_run.pc = "read_gtf"
    /\ LET r == read_gtf(gtf_run.gtf)
       IN  IF r.raised # "ok"
           THEN /\ ret' = [op |-> "annotate_gtf", gtf |-> gtf_run.gtf,
                           raised |-> r.raised, result |-> << >>]
                /\ gtf_run' = NotRunning
           ELSE /\ gtf_run' = [pc |-> "loop", gtf |-> gtf_run.gtf, gtf_df |-> r.df,
                               idx |-> 1, annotations |-> << >>]
                /\ UNCHANGED ret
    /\ UNCHANGED <<pc, handler, inserted>>
    /\ UNCHANGED <<quantifier, batch, load_vars>>

\* annotate_gtf: one turn of the loop over gtf_df.iterrows(). A transcript
\* row is annotated and the annotation appended; the call of
\* _annotate_transcript is not inside a try.
AnnotateRow ==
    /\ gtf_run.pc = "loop"
    /\ gtf_run.idx <= Len(gtf_run.gtf_df)
    /\ LET row == gtf_run.gtf_df[gtf_run.idx]
       IN  IF row.feature = "transcript"
           THEN \E te_overlaps \in iteration_orders(
                        find_overlaps(handler, row.seqname, row.start, row.end, row.strand)) :
                    gtf_run' = [gtf_run EXCEPT
                        !.idx = @ + 1,
                        !.annotations = Append(@, annotate_transcript(handler, row, te_overlaps))]
           ELSE gtf_run' = [gtf_run EXCEPT !.idx = @ + 1]
    /\ UNCHANGED <<pc, handler, inserted, ret>>
    /\ UNCHANGED <<quantifier, batch, load_vars>>

\* annotate_gtf: the loop is over, the annotations are returned.
FinishGtf ==
    /\ gtf_run.pc = "loop"
    /\ gtf_run.idx > Len(gtf_run.gtf_df)
    /\ ret' = [op |-> "annotate_gtf", gtf |-> gtf_run.gtf, raised |-> "ok",
               result |-> gtf_run.annotations]
    /\ gtf_run' = NotRunning
    /\ UNCHANGED <<pc, handler, inserted>>
    /\ UNCHANGED <<quantifier, batch, load_vars>>

\* A TEAnnotator that annotates GTF files: a TE reference of at most one
\* row, then annotate_gtf on files of every composition.
NextGtf ==
    \/ \E end \in 1..MaxCoord :
           /\ ret = Idle
           /\ Added(handler) < 1
           /\ LoadRow("c1", 0, end, <<"a">>, 0, "+")
    \/ FinishLoad
    \/ \E gtf \in GtfFiles : AnnotateGtf(gtf)
    \/ ReadGtf
    \/ AnnotateRow
    \/ FinishGtf
    \/ Return

SpecGtf == InitAnnot /\ [][NextGtf]_vars

\* AnnotationConfig(rmsk_bed, gencode_plus_dict, gencode_minus_dict,
\* validate_inputs) is about to be built, and a TEAnnotator of it. ci and
\* ri are the contig and the row _load_repeatmasker is at.
NewLoader(config) ==
    [pc |-> "config", config |-> config, ci |-> 1, ri |-> 1,
     outcomes |-> [c \in {"c1", "c2"} |-> << >>],
     gencode_plus |-> EmptyDict, gencode_minus |-> EmptyDict,
     warnings |-> {}, raised |-> "ok"]

\* The annotators of every TE reference file, no dictionary given.
InitLoad ==
    /\ pc = "loading"
    /\ handler = NewHandler(TRUE)
    /\ inserted = {}
    /\ ret = Idle
    /\ gtf_run = NotRunning
    /\ quantifier = NotBuilt
    /\ batch = NotStarted
    /\ loader \in {NewLoader([rmsk_bed |-> f, gencode_plus_dict |-> "unset",
                               gencode_minus_dict |-> "unset",
                               validate_inputs |-> TRUE]) : f \in TabixFiles}
    /\ workflow = NotEntered

\* The annotators of every pair of dictionary files, with and without
\* validation of the inputs, of a TE reference of at most one row.
InitDict ==
    /\ pc = "loading"
    /\ handler = NewHandler(TRUE)
    /\ inserted = {}
    /\ ret = Idle
    /\ gtf_run = NotRunning
    /\ quantifier = NotBuilt
    /\ batch = NotStarted
    /\ loader \in {NewLoader([rmsk_bed |-> f, gencode_plus_dict |-> p,
                               gencode_minus_dict |-> m, validate_inputs |-> v]) :
                        f \in {t \in TabixFiles : Len(t.c1) <= 1 /\ t.c2 = << >>},
                        p \in DictFiles, m \in DictFiles, v \in BOOLEAN}
    /\ workflow = NotEntered

\* AnnotationConfig(...): __post_init__ validates the input files. An
\* exception leaves the constructor: there is no configuration and no
\* annotator.
PostInit ==
    /\ loader.pc = "config"
    /\ LET err == annotation_config_post_init(loader.config)
       IN  loader' = IF err # "ok"
                     THEN [loader EXCEPT !.pc = "failed", !.raised = err]
                     ELSE [loader EXCEPT !.pc = "rmsk"]
    /\ UNCHANGED <<annotator_vars, quantifier, batch, workflow>>

\* _load_repeatmasker: one row of tbx.fetch(contig). The try around the
\* loop over the rows catches what the body raises, and its handler goes
\* on with the next contig.
LoadRecord ==
    /\ loader.pc = "rmsk"
    /\ loader.ci <= Len(TabixContigs)
    /\ LET contig == TabixContigs[loader.ci]
           rows == loader.config.rmsk_bed[contig]
       IN  /\ loader.ri <= Len(rows)
           /\ LET r == load_record(handler, rows[loader.ri])
              IN  /\ handler' = r.h
                  /\ inserted' = IF r.outcome = "added"
                                  THEN inserted \cup {contig} ELSE inserted
                  /\ loader' = IF r.raised # "ok"
                                THEN [loader EXCEPT
                                         !.ci = @ + 1, !.ri = 1,
                                         !.outcomes[contig] = Append(@, r.outcome)]
                                ELSE [loader EXCEPT
                                         !.ri = @ + 1,
                                         !.outcomes[contig] = Append(@, r.outcome)]
    /\ UNCHANGED <<pc, ret, gtf_run, quantifier, batch, workflow>>

\* _load_repeatmasker: the rows of the contig are exhausted.
EndContig ==
    /\ loader.pc = "rmsk"
    /\ loader.ci <= Len(TabixContigs)
    /\ loader.ri > Len(loader.config.rmsk_bed[TabixContigs[loader.ci]])
    /\ loader' = [loader EXCEPT !.ci = @ + 1, !.ri = 1]
    /\ UNCHANGED <<annotator_vars, quantifier, batch, workflow>>

\* __init__: self._load_gencode_dictionaries(), after the last contig.
LoadGencodeDictionaries ==
    /\ loader.pc = "rmsk"
    /\ loader.ci > Len(TabixContigs)
    /\ LET plus == load_gencode_dictionary(loader.config.gencode_plus_dict)
           minus == load_gencode_dictionary(loader.config.gencode_minus_dict)
       IN  loader' = [loader EXCEPT
               !.pc = "loaded",
               !.gencode_plus = plus.value,
               !.gencode_minus = minus.value,
               !.warnings = (IF plus.warned THEN {"gencode_plus_dict"} ELSE {})
                            \cup (IF minus.warned THEN {"gencode_minus_dict"} ELSE {})]
    /\ UNCHANGED <<annotator_vars, quantifier, batch, workflow>>

\* TEAnnotator.__init__ returns (no focus genes are configured): the
\* annotator is ready to annotate.
FinishInit ==
    /\ loader.pc = "loaded"
    /\ pc = "loading"
    /\ pc' = "ready"
    /\ loader' = [loader EXCEPT !.pc = "done"]
    /\ UNCHANGED <<handler, inserted, ret, gtf_run, quantifier, batch, workflow>>

NextLoad ==
    \/ PostInit
    \/ LoadRecord
    \/ EndContig
    \/ LoadGencodeDictionaries
    \/ FinishInit

SpecLoad == InitLoad /\ [][NextLoad]_vars

SpecDict == InitDict /\ [][NextLoad]_vars

\* QuantificationConfig(bam_file, gtf_file): min_mapq and stranded at their
\* defaults.
QuantificationConfigs ==
    {[bam_file |-> b, gtf_file |-> g, min_mapq |-> DefaultMinMapq, stranded |-> FALSE] :
        b \in BamFiles, g \in QuantGtfFiles}

\* ExpressionQuantifier(config) is about to be built. bam is the state of
\* the handle self.bam; passes counts the normalization passes run.
NewQuantifier(config) ==
    [pc |-> "init", config |-> config, bam |-> "none", transcripts |-> << >>,
     idx |-> 0, results |-> << >>, passes |-> 0, transcript_df |-> << >>,
     fraction_df |-> << >>, gene_df |-> {}, raised |-> "ok"]

InitQuant ==
    /\ pc = "index"
    /\ handler = NewHandler(TRUE)
    /\ inserted = {}
    /\ ret = Idle
    /\ gtf_run = NotRunning
    /\ quantifier \in {NewQuantifier(config) : config \in QuantificationConfigs}
    /\ batch = NotStarted
    /\ loader = NotLoading
    /\ workflow = NotEntered

\* __init__: self.bam = pysam.AlignmentFile(str(config.bam_file), "rb")
OpenBam ==
    /\ quantifier.pc = "init"
    /\ quantifier' = [quantifier EXCEPT !.pc = "load_gtf", !.bam = "open"]
    /\ UNCHANGED <<annotator_vars, batch, load_vars>>

\* __init__: self.transcripts = self._load_gtf(). An exception leaves
\* __init__, which catches nothing: no object is returned, the with-block
\* is not entered and __exit__ is not called.
LoadGtf ==
    /\ quantifier.pc = "load_gtf"
    /\ LET r == load_gtf(quantifier.config.gtf_file)
       IN  quantifier' =
               IF r.raised # "ok"
               THEN [quantifier EXCEPT !.pc = "failed", !.raised = r.raised]
               ELSE [quantifier EXCEPT !.pc = "entered", !.transcripts = r.transcripts]
    /\ UNCHANGED <<annotator_vars, batch, load_vars>>

\* quantify_all is entered: results = []
QuantifyAll ==
    /\ quantifier.pc = "entered"
    /\ quantifier' = [quantifier EXCEPT !.pc = "counting", !.idx = 1, !.results = << >>]
    /\ UNCHANGED <<annotator_vars, batch, load_vars>>

\* Mutant of the end of the loop: normalization at any turn.
loop_done_any(q) == TRUE

\* quantify_all: the loop over self.transcripts.iterrows() is over.
loop_done(q) == q.idx > Len(q.transcripts)

\* quantify_all: one turn of the loop.
QuantifyTranscript ==
    /\ quantifier.pc = "counting"
    /\ quantifier.idx <= Len(quantifier.transcripts)
    /\ LET transcript == quantifier.transcripts[quantifier.idx]
           r == quantify_transcript(quantifier.config.bam_file, quantifier.config.min_mapq,
                                    quantifier.config.stranded, transcript)
       IN  quantifier' = [quantifier EXCEPT
               !.idx = @ + 1,
               !.results = Append(@, IF r.raised = "ok" THEN r.quant
                                     ELSE placeholder(transcript))]
    /\ UNCHANGED <<annotator_vars, batch, load_vars>>

\* quantify_all: result_df = self._calculate_normalized_expression(result_df)
\* and the return. A KeyError leaves quantify_all and the with-block.
Normalize ==
    /\ quantifier.pc = "counting"
    /\ loop_done(quantifier)
    /\ LET r == calculate_normalized_expression(quantifier.results)
       IN  quantifier' =
               IF r.raised # "ok"
               THEN [quantifier EXCEPT !.pc = "raising", !.raised = r.raised,
                                       !.passes = @ + 1]
               ELSE [quantifier EXCEPT !.pc = "quantified", !.transcript_df = r.df,
                                       !.passes = @ + 1]
    /\ UNCHANGED <<annotator_vars, batch, load_vars>>

\* quantifier.calculate_transcript_fraction(transcript_df)
CalculateTranscriptFraction ==
    /\ quantifier.pc = "quantified"
    /\ quantifier' = [quantifier EXCEPT
           !.pc = "fractions",
           !.fraction_df = calculate_transcript_fraction(quantifier.transcript_df)]
    /\ UNCHANGED <<annotator_vars, batch, load_vars>>

\* quantifier.calculate_gene_expression(transcript_df)
CalculateGeneExpression ==
    /\ quantifier.pc \in {"quantified", "fractions"}
    /\ quantifier' = [quantifier EXCEPT
           !.pc = "genes",
           !.gene_df = calculate_gene_expression(quantifier.transcript_df)]
    /\ UNCHANGED <<annotator_vars, batch, load_vars>>

\* The with-block is left, at its end or by an exception: __exit__ calls
\* close(), which closes the handle.
Exit ==
    /\ quantifier.pc \in {"quantified", "fractions", "genes", "raising"}
    /\ quantifier' = [quantifier EXCEPT
           !.pc = IF quantifier.pc = "raising" THEN "raised" ELSE "done",
           !.bam = "closed"]
    /\ UNCHANGED <<annotator_vars, batch, load_vars>>

\* The object __init__ did not finish is reclaimed, if and when the
\* interpreter drops the last reference to it: the destructor of the
\* AlignmentFile closes the handle. No code of the quantifier runs.
Collect ==
    /\ quantifier.pc = "failed"
    /\ quantifier.bam = "open"
    /\ quantifier' = [quantifier EXCEPT !.bam = "closed"]
    /\ UNCHANGED <<annotator_vars, batch, load_vars>>

\* The steps the quantifier and its with-block take.
QuantSteps ==
    \/ OpenBam
    \/ LoadGtf
    \/ QuantifyAll
    \/ QuantifyTranscript
    \/ Normalize
    \/ CalculateTranscriptFraction
    \/ CalculateGeneExpression
    \/ Exit

NextQuant == QuantSteps \/ Collect

SpecQuant == InitQuant /\ [][NextQuant]_vars

\* The interpreter runs the code; it need not reclaim an object.
SpecQuantFair == SpecQuant /\ WF_vars(QuantSteps)

\* The reads _filter_read is asked about: every mapping quality around the
\* thresholds, either orientation.
MapQs == {0, 59, 60, 254, 255}
MinMapqs == {0, 60, DefaultMinMapq}
FilterReads == {[mapq |-> q, is_reverse |-> b] : q \in MapQs, b \in BOOLEAN}

\* quantifier._filter_read(read, transcript_strand), the quantifier having
\* config.min_mapq and config.stranded.
FilterRead(read, transcript_strand, min_mapq, stranded) ==
    /\ ret = Idle
    /\ ret' = [op |-> "filter_read", read |-> read, strand |-> transcript_strand,
               min_mapq |-> min_mapq, stranded |-> stranded,
               result |-> filter_read(read, transcript_strand, min_mapq, stranded),
               raised |-> "ok"]
    /\ UNCHANGED <<pc, handler, inserted>>
    /\ UNCHANGED run_vars

NextFilter ==
    \/ \E read \in FilterReads, transcript_strand \in ValidStrands,
          min_mapq \in MinMapqs, stranded \in BOOLEAN :
           FilterRead(read, transcript_strand, min_mapq, stranded)
    \/ Return

SpecFilter == Init /\ [][NextFilter]_vars

\* ------------------------------------------------------- batch run

\* What happens to a sample in process_single_individual: nothing throws,
\* or a step throws: the creation of its output directory, the annotation,
\* the quantification, or the merge of the two tables.
Fates == {"ok", "mkdir", "annotate", "quantify", "merge"}

\* process_single_individual(individual_id, ...). indiv_output.mkdir stands
\* before the try: what it raises leaves the function. What a later step
\* raises is caught, and a summary with status 'failed' is returned.
process_single_individual(individual_id, fate) ==
    IF fate = "mkdir"
    THEN [raised |-> "OSError"]
    ELSE IF fate = "ok"
    THEN [raised |-> "ok",
          summary |-> [individual_id |-> individual_id, status |-> "success"]]
    ELSE [raised |-> "ok",
          summary |-> [individual_id |-> individual_id, status |-> "failed",
                       error |-> fate]]

\* main: the entry appended when future.result() raises.
failed_entry(indiv_id, e) ==
    [individual_id |-> indiv_id, status |-> "failed", error |-> e]

\* main at step 3: valid_samples are the samples 1 .. n, fates what will
\* happen to each; futures holds the outcome of each finished worker.
NewBatch(workers, fates) ==
    [pc |-> "start", workers |-> workers, fates |-> fates, i |-> 1,
     results |-> << >>, futures |-> << >>, collected |-> {}, successful |-> << >>]

InitBatch ==
    /\ pc = "index"
    /\ handler = NewHandler(TRUE)
    /\ inserted = {}
    /\ ret = Idle
    /\ gtf_run = NotRunning
    /\ quantifier = NotBuilt
    /\ batch \in {NewBatch(workers, fates) :
                     workers \in 1..2,
                     fates \in UNION {[1..n -> Fates] : n \in 1..MaxSamples}}
    /\ loader = NotLoading
    /\ workflow = NotEntered

\* main, workers == 1: one turn of the loop over valid_samples. The call
\* of process_single_individual is not inside a try: an exception leaves
\* main.
ProcessSequential ==
    /\ batch.pc = "start"
    /\ batch.workers = 1
    /\ batch.i <= Len(batch.fates)
    /\ LET r == process_single_individual(batch.i, batch.fates[batch.i])
       IN  batch' = IF r.raised # "ok"
                    THEN [batch EXCEPT !.pc = "aborted"]
                    ELSE [batch EXCEPT !.i = @ + 1, !.results = Append(@, r.summary)]
    /\ UNCHANGED <<annotator_vars, quantifier, load_vars>>

\* main, workers > 1: every sample is submitted to the ProcessPoolExecutor.
Submit ==
    /\ batch.pc = "start"
    /\ batch.workers > 1
    /\ batch' = [batch EXCEPT !.pc = "collect"]
    /\ UNCHANGED <<annotator_vars, quantifier, load_vars>>

\* A worker process finishes a sample: its future holds the summary or the
\* exception.
FutureDone(k) ==
    /\ batch.pc = "collect"
    /\ k \in DOMAIN batch.fates
    /\ k \notin DOMAIN batch.futures
    /\ batch' = [batch EXCEPT
           !.futures = put(@, k, process_single_individual(k, batch.fates[k]))]
    /\ UNCHANGED <<annotator_vars, quantifier, load_vars>>

\* main: one turn of the loop over as_completed(futures): future.result()
\* inside a try.
CollectResult(k) ==
    /\ batch.pc = "collect"
    /\ k \in DOMAIN batch.futures
    /\ k \notin batch.collected
    /\ LET r == batch.futures[k]
       IN  batch' = [batch EXCEPT
               !.collected = @ \cup {k},
               !.results = Append(@, IF r.raised = "ok" THEN r.summary
                                     ELSE failed_entry(k, r.raised))]
    /\ UNCHANGED <<annotator_vars, quantifier, load_vars>>

RECURSIVE successful_until_failure(_)
\* Mutant of the selection of the summary rows: the successful entries
\* that precede the first failed one.
successful_until_failure(results) ==
    IF results = << >> \/ Head(results).status # "success" THEN << >>
    ELSE <<Head(results)>> \o successful_until_failure(Tail(results))

\* main at step 4: successful = [r for r in results if r['status'] ==
\* 'success'], the rows of the batch summary table.
successful_entries(results) == SelectSeq(results, LAMBDA r : r.status = "success")

\* main at step 4: the batch summary is built of the successful entries.
Summarize ==
    /\ \/ batch.pc = "start" /\ batch.workers = 1 /\ batch.i > Len(batch.fates)
       \/ batch.pc = "collect" /\ batch.collected = DOMAIN batch.fates
    /\ batch' = [batch EXCEPT
           !.pc = "done",
           !.successful = successful_entries(batch.results)]
    /\ UNCHANGED <<annotator_vars, quantifier, load_vars>>

NextBatch ==
    \/ ProcessSequential
    \/ Submit
    \/ \E k \in 1..MaxSamples : FutureDone(k)
    \/ \E k \in 1..MaxSamples : CollectResult(k)
    \/ Summarize

SpecBatch == InitBatch /\ [][NextBatch]_vars

\* ------------------------------------------------- ambrosia_workflow

\* QuantificationConfig.__post_init__: with validate_inputs the BAM file,
\* the GTF file and the index <bam>.bai are looked for, in this order.
quantification_config_post_init(config) ==
    IF ~config.validate_inputs THEN "ok"
    ELSE IF ~config.bam_exists THEN "FileNotFoundError"
    ELSE IF ~config.gtf_exists THEN "FileNotFoundError"
    ELSE IF ~config.bai_exists THEN "FileNotFoundError"
    ELSE "ok"

\* The files ambrosia_workflow is called on: the BAM file and its index
\* exist or not, the GTF file exists or not and holds a number of
\* transcript rows, the two dictionaries are files of every kind (the
\* workflow always gives both). The TE reference exists.
WorkflowInputs ==
    {[bam_exists |-> b, bai_exists |-> i, gtf_exists |-> g, n_transcripts |-> n,
      gencode_plus |-> p, gencode_minus |-> m] :
        b \in BOOLEAN, i \in BOOLEAN, g \in BOOLEAN, n \in 0..MaxTranscripts,
        p \in DictFiles \ {"unset"}, m \in DictFiles \ {"unset"}}

\* ambrosia_workflow(...) is entered: nothing is annotated, quantified or
\* written yet.
InitWorkflow ==
    /\ pc = "loading"
    /\ handler = NewHandler(TRUE)
    /\ inserted = {}
    /\ ret = Idle
    /\ gtf_run = NotRunning
    /\ quantifier = NotBuilt
    /\ batch = NotStarted
    /\ loader = NotLoading
    /\ \E inputs \in WorkflowInputs :
           /\ inputs.gtf_exists \/ inputs.n_transcripts = 0
           /\ workflow = [pc |-> "mkdir", inputs |-> inputs, output_dir |-> FALSE,
                          annotated |-> 0, quantified |-> 0, written |-> {},
                          raised |-> "ok", raised_by |-> "none"]

\* The workflow is left by the exception of one of its calls.
WorkflowRaise(err, by) ==
    workflow' = [workflow EXCEPT !.pc = "failed", !.raised = err, !.raised_by = by]

\* output_dir.mkdir(parents=True, exist_ok=True)
MakeOutputDir ==
    /\ workflow.pc = "mkdir"
    /\ workflow' = [workflow EXCEPT !.pc = "annotation_config", !.output_dir = TRUE]
    /\ UNCHANGED <<annotator_vars, quantifier, batch, loader>>

\* annotation_config = AnnotationConfig(..., validate_inputs=True)
WorkflowAnnotationConfig ==
    /\ workflow.pc = "annotation_config"
    /\ LET err == annotation_config_post_init(
                      [validate_inputs |-> TRUE,
                       gencode_plus_dict |-> workflow.inputs.gencode_plus,
                       gencode_minus_dict |-> workflow.inputs.gencode_minus])
       IN  IF err # "ok" THEN WorkflowRaise(err, "AnnotationConfig")
           ELSE workflow' = [workflow EXCEPT !.pc = "annotator"]
    /\ UNCHANGED <<annotator_vars, quantifier, batch, loader>>

\* annotator = TEAnnotator(annotation_config), then the entry of
\* annotator.annotate_gtf(gtf_file, annotation_output): _read_gtf raises
\* for a GTF file that does not exist.
WorkflowReadGtf ==
    /\ workflow.pc = "annotator"
    /\ IF ~workflow.inputs.gtf_exists
       THEN WorkflowRaise("FileNotFoundError", "annotate_gtf")
       ELSE workflow' = [workflow EXCEPT !.pc = "annotate"]
    /\ UNCHANGED <<annotator_vars, quantifier, batch, loader>>

\* annotate_gtf: one transcript row is annotated.
WorkflowAnnotateTranscript ==
    /\ workflow.pc = "annotate"
    /\ workflow.annotated < workflow.inputs.n_transcripts
    /\ workflow' = [workflow EXCEPT !.annotated = @ + 1]
    /\ UNCHANGED <<annotator_vars, quantifier, batch, loader>>

\* annotate_gtf: the loop is over; output_path is given, so the frame is
\* written to transcripts_annotated.tsv.
WorkflowSaveAnnotations ==
    /\ workflow.pc = "annotate"
    /\ workflow.annotated = workflow.inputs.n_transcripts
    /\ workflow' = [workflow EXCEPT !.pc = "annotation_stats",
                                    !.written = @ \cup {"transcripts_annotated.tsv"}]
    /\ UNCHANGED <<annotator_vars, quantifier, batch, loader>>

\* The summary statistics of step 1: annotation_df['n_te_overlaps'] is a
\* KeyError on the frame without columns that no annotation gives.
WorkflowAnnotationStats ==
    /\ workflow.pc = "annotation_stats"
    /\ IF workflow.annotated = 0
       THEN WorkflowRaise("KeyError", "annotation_stats")
       ELSE workflow' = [workflow EXCEPT !.pc = "quant_config"]
    /\ UNCHANGED <<annotator_vars, quantifier, batch, loader>>

\* quant_config = QuantificationConfig(bam_file, gtf_file, ...), with
\* validate_inputs at its default True.
WorkflowQuantificationConfig ==
    /\ workflow.pc = "quant_config"
    /\ LET err == quantification_config_post_init(
                      [validate_inputs |-> TRUE,
                       bam_exists |-> workflow.inputs.bam_exists,
                       gtf_exists |-> workflow.inputs.gtf_exists,
                       bai_exists |-> workflow.inputs.bai_exists])
       IN  IF err # "ok" THEN WorkflowRaise(err, "QuantificationConfig")
           ELSE workflow' = [workflow EXCEPT !.pc = "quantify"]
    /\ UNCHANGED <<annotator_vars, quantifier, batch, loader>>

\* with ExpressionQuantifier(quant_config) as quantifier:
\* quantifier.quantify_all() and calculate_transcript_fraction.
WorkflowQuantify ==
    /\ workflow.pc = "quantify"
    /\ workflow' = [workflow EXCEPT !.pc = "save_transcripts",
                                    !.quantified = workflow.inputs.n_transcripts]
    /\ UNCHANGED <<annotator_vars, quantifier, batch, loader>>

\* quantifier.save_results(transcript_df, transcript_output)
WorkflowSaveTranscripts ==
    /\ workflow.pc = "save_transcripts"
    /\ workflow' = [workflow EXCEPT !.pc = "save_genes",
                                    !.written = @ \cup {"transcript_expression.tsv"}]
    /\ UNCHANGED <<annotator_vars, quantifier, batch, loader>>

\* calculate_gene_expression and quantifier.save_results(gene_df, gene_output)
WorkflowSaveGenes ==
    /\ workflow.pc = "save_genes"
    /\ workflow' = [workflow EXCEPT !.pc = "merge",
                                    !.written = @ \cup {"gene_expression.tsv"}]
    /\ UNCHANGED <<annotator_vars, quantifier, batch, loader>>

\* Step 3: the merge of the two frames; the TE-promoter rows are written.
WorkflowMerge ==
    /\ workflow.pc = "merge"
    /\ workflow' = [workflow EXCEPT !.pc = "summary",
                                    !.written = @ \cup {"te_promoter_transcripts.tsv"}]
    /\ UNCHANGED <<annotator_vars, quantifier, batch, loader>>

\* Step 4: the summary is written as summary.json and returned.
WorkflowSummary ==
    /\ workflow.pc = "summary"
    /\ workflow' = [workflow EXCEPT !.pc = "done",
                                    !.written = @ \cup {"summary.json"}]
    /\ UNCHANGED <<annotator_vars, quantifier, batch, loader>>

NextWorkflow ==
    \/ MakeOutputDir
    \/ WorkflowAnnotationConfig
    \/ WorkflowReadGtf
    \/ WorkflowAnnotateTranscript
    \/ WorkflowSaveAnnotations
    \/ WorkflowAnnotationStats
    \/ WorkflowQuantificationConfig
    \/ WorkflowQuantify
    \/ WorkflowSaveTranscripts
    \/ WorkflowSaveGenes
    \/ WorkflowMerge
    \/ WorkflowSummary

SpecWorkflow == InitWorkflow /\ [][NextWorkflow]_vars

\* ------------------------------------------------------------- claims

\* Every interval any tree of the handler holds.
Stored(h) == UNION {h.intervals[c] : c \in DOMAIN h.intervals}

\* The half-open ranges [iv.start, iv.end) and [start, end) share a base.
SharesBase(iv, start, end) ==
    \E p \in iv.start..(iv.end - 1) : start <= p /\ p < end

\* C1: on a contig that was never inserted, find_overlaps returns an empty
\* list and get_contig_stats returns {count: 0, total_bp: 0}; neither raises.
C1_UnknownContigIsEmpty ==
    /\ (ret.op = "find_overlaps" /\ ret.chrom \notin inserted)
           => (ret.raised = "ok" /\ ret.result = {})
    /\ (ret.op = "get_contig_stats" /\ ret.chrom \notin inserted)
           => (ret.raised = "ok" /\ ret.result = [count |-> 0, total_bp |-> 0])

\* C1 witness: a query on a never-inserted contig whose range and strand
\* do match intervals stored on another contig.
C1_Witness ==
    /\ ret.op = "find_overlaps"
    /\ ret.chrom \notin inserted
    /\ \E iv \in Stored(handler) :
           /\ SharesBase(iv, ret.start, ret.end)
           /\ ret.strand \in {None, iv.strand}

\* C2: find_overlaps returns exactly the intervals stored on chrom whose
\* half-open range shares a base with [start, end), restricted to the given
\* strand when one is given; for start < end these are the intervals with
\* iv.start < end and iv.end > start.
C2_FindOverlapsExact ==
    ret.op = "find_overlaps" =>
        /\ ret.result =
               {iv \in Stored(handler) :
                    /\ iv.chrom = ret.chrom
                    /\ SharesBase(iv, ret.start, ret.end)
                    /\ (ret.strand # None => iv.strand = ret.strand)}
        /\ ret.start < ret.end =>
               \A iv \in Stored(handler) :
                   iv \in ret.result <=>
                       /\ iv.chrom = ret.chrom
                       /\ iv.start < ret.end /\ iv.end > ret.start
                       /\ (ret.strand # None => iv.strand = ret.strand)

\* C2 witness: a strand-filtered query that returns an interval and leaves
\* out an interval of the same contig that covers the range on the other
\* strand.
C2_Witness ==
    /\ ret.op = "find_overlaps"
    /\ ret.strand # None
    /\ ret.result # {}
    /\ \E iv \in get(handler.intervals, ret.chrom, {}) \ ret.result :
           iv.strand # ret.strand /\ SharesBase(iv, ret.start, ret.end)

\* C3: add_interval succeeds, and stores the interval, for every start >= 0,
\* end > start and strand in {+, -, .} on any contig, seen before or not; it
\* fails with a validation error whenever end <= start.
C3_AddSucceedsIffValid ==
    ret.op = "add_interval" =>
        /\ (ret.start >= 0 /\ ret.end > ret.start /\ ret.strand \in {"+", "-", "."})
               => /\ ret.raised = "ok"
                  /\ ret.chrom \in get_contigs(handler)
                  /\ \E iv \in handler.intervals[ret.chrom] :
                         /\ iv.start = ret.start /\ iv.end = ret.end
                         /\ iv.strand = ret.strand /\ iv.chrom = ret.chrom
        /\ ret.end <= ret.start => ret.raised # "ok"

\* C3 witness: a successful insertion whose contig's tree the call created,
\* beside a contig already present.
C3_Witness ==
    /\ ret.op = "add_interval"
    /\ ret.raised = "ok"
    /\ get_contig_stats(handler, ret.chrom).count = 1
    /\ get_contigs(handler) # {ret.chrom}

\* Every stored interval passed the validation of its constructor.
StoredValid ==
    \A iv \in Stored(handler) :
        iv.start >= 0 /\ iv.end > iv.start /\ iv.strand \in {"+", "-", "."}

C5_StatsStep ==
    (ret.op = "add_interval" /\ ret.raised = "ok") =>
        /\ get_contig_stats(handler, ret.chrom).count
               = get_contig_stats(ret.before, ret.chrom).count + 1
        /\ get_contig_stats(handler, ret.chrom).total_bp
               = get_contig_stats(ret.before, ret.chrom).total_bp + (ret.end - ret.start)
        /\ \A c \in Contigs \ {ret.chrom} :
               get_contig_stats(handler, c) = get_contig_stats(ret.before, c)

\* C5 witness: a successful insertion on one contig while another contig
\* holds statistics of its own.
C5_Witness ==
    /\ ret.op = "add_interval"
    /\ ret.raised = "ok"
    /\ \E c \in Contigs \ {ret.chrom} : get_contig_stats(handler, c).count > 0

\* The elements of a list.
Elements(seq) == {seq[i] : i \in DOMAIN seq}

\* The intervals merge_intervals(chrom, strand, gap) starts from.
MergeInput == {iv \in Stored(handler) :
                   iv.chrom = ret.chrom /\ (ret.strand # None => iv.strand = ret.strand)}

\* No two intervals of the set share a base.
PairwiseDisjoint(ivs) ==
    \A a \in ivs : \A b \in ivs \ {a} : ~SharesBase(a, b.start, b.end)

\* No two intervals of the set share a base or touch.
PairwiseApart(ivs) ==
    \A a \in ivs : \A b \in ivs \ {a} : a.end < b.start \/ b.end < a.start

\* The list holds exactly the intervals of the set, each once and as
\* stored, in ascending order of start.
IsSortedListOf(seq, ivs) ==
    /\ Elements(seq) = ivs
    /\ Len(seq) = Cardinality(ivs)
    /\ \A i \in DOMAIN seq : \A j \in DOMAIN seq : i < j => seq[i].start < seq[j].start

\* C6 as stated: N pairwise non-overlapping intervals of one contig, merged
\* with gap = 0, come back as exactly those N intervals in ascending start
\* order.
C6_DisjointRoundTrip ==
    (/\ ret.op = "merge_intervals"
     /\ ret.gap = 0
     /\ ret.strand = None
     /\ PairwiseDisjoint(MergeInput))
        => IsSortedListOf(ret.result, MergeInput)

\* C6 as amended: N intervals of one contig that pairwise neither overlap
\* nor touch (the next start is greater than the previous end), merged with
\* gap = 0, come back as exactly those N intervals in ascending start order.
C6_ApartRoundTrip ==
    (/\ ret.op = "merge_intervals"
     /\ ret.gap = 0
     /\ ret.strand = None
     /\ PairwiseApart(MergeInput))
        => IsSortedListOf(ret.result, MergeInput)

\* C6 witness: two intervals a base apart, stored in either strand, merged
\* with gap = 0.
C6_Witness ==
    /\ ret.op = "merge_intervals"
    /\ ret.gap = 0
    /\ ret.strand = None
    /\ Cardinality(MergeInput) >= 2
    /\ PairwiseApart(MergeInput)

\* C7: the output of merge_intervals(contig, gap = g), inserted into a fresh
\* index and merged with the same gap, comes back as the same set of
\* intervals (start, end, strand, name and score of each).
C7_MergeIdempotent ==
    ret.op = "merge_again" =>
        /\ Len(ret.result) = Len(ret.first)
        /\ Elements(ret.result) = Elements(ret.first)

\* C7 witness: a second merge, with a gap above 0, of a list that holds
\* the merge of several intervals.
C7_Witness ==
    /\ ret.op = "merge_again"
    /\ ret.gap > 0
    /\ \E i \in DOMAIN ret.first : Len(ret.first[i].name) >= 2

\* The input intervals an output interval spans.
Members(o, ivs) == {iv \in ivs : o.start <= iv.start /\ iv.end <= o.end}

\* The lists of all the intervals of a set in ascending order of start.
StartOrders(ivs) ==
    {f \in [1..Cardinality(ivs) -> ivs] :
        /\ \A i \in DOMAIN f : \A j \in DOMAIN f : i < j =>
               (f[i] # f[j] /\ f[i].start <= f[j].start)}

RECURSIVE JoinNames(_)
JoinNames(seq) ==
    IF seq = << >> THEN << >> ELSE Head(seq).name \o JoinNames(Tail(seq))

\* C8: for any stored set and gap >= 0, merge_intervals returns intervals in
\* strictly ascending start order, pairwise disjoint, each consecutive pair
\* with next.start > previous.end + gap; two input intervals are in the same
\* output interval whenever the later start <= the earlier end + gap (and so
\* whenever it is <= the running end + gap); an output interval spans its
\* members from their least start to their greatest end and carries their
\* comma-joined names in start order and the maximum of their scores.
C8_MergeResult ==
    ret.op = "merge_intervals" =>
        LET out == ret.result
            inp == MergeInput
        IN  /\ \A i \in DOMAIN out : \A j \in DOMAIN out : i < j =>
                   /\ out[i].start < out[j].start
                   /\ ~SharesBase(out[i], out[j].start, out[j].end)
            /\ \A i \in DOMAIN out : (i + 1) \in DOMAIN out =>
                   out[i + 1].start > out[i].end + ret.gap
            /\ \A iv \in inp : \E i \in DOMAIN out : iv \in Members(out[i], inp)
            /\ \A a \in inp : \A b \in inp :
                   (a.start <= b.start /\ b.start <= a.end + ret.gap) =>
                       \E i \in DOMAIN out :
                           a \in Members(out[i], inp) /\ b \in Members(out[i], inp)
            /\ \A i \in DOMAIN out :
                   LET m == Members(out[i], inp)
                   IN  /\ m # {}
                       /\ \A iv \in m : out[i].start <= iv.start /\ iv.end <= out[i].end
                       /\ \E iv \in m : out[i].start = iv.start
                       /\ \E iv \in m : out[i].end = iv.end
                       /\ \E iv \in m : out[i].score = iv.score
                       /\ \A iv \in m : out[i].score >= iv.score
                       /\ \E order \in StartOrders(m) : out[i].name = JoinNames(order)

\* C8 witness: a merge that returns two intervals, one of them merged from
\* members of different scores.
C8_Witness ==
    /\ ret.op = "merge_intervals"
    /\ Len(ret.result) >= 2
    /\ \E i \in DOMAIN ret.result :
           LET m == Members(ret.result[i], MergeInput)
           IN  \E a \in m : \E b \in m : a.score # b.score

\* The TEs of the contig and strand that share a base with [start, end).
TEsIn(chrom, strand, start, end) ==
    {te \in Stored(handler) :
        te.chrom = chrom /\ te.strand = strand /\ SharesBase(te, start, end)}

\* The promoter region of a TSS: the window upstream of it.
PromoterStart(tss, strand, window) ==
    IF strand = "+" THEN (IF tss - window > 0 THEN tss - window ELSE 0) ELSE tss

PromoterEnd(tss, strand, window) ==
    IF strand = "+" THEN tss ELSE tss + window

\* C9: _check_te_promoter(chrom, tss, strand, window) is true iff a TE stored
\* on chrom with the same strand shares a base with the promoter region,
\* [max(0, tss - window), tss) for "+" and [tss, tss + window) for "-";
\* window is 2000 when omitted. A TE of the other strand never counts.
C9_PromoterCheck ==
    (ret.op = "check_te_promoter" /\ ret.strand \in {"+", "-"}) =>
        LET window == IF ret.window_given THEN ret.window ELSE 2000
        IN  ret.result = (TEsIn(ret.chrom, ret.strand,
                                PromoterStart(ret.tss, ret.strand, window),
                                PromoterEnd(ret.tss, ret.strand, window)) # {})

\* C9 witness: a check on "+" with the default window, the region clamped
\* at 0, that finds a TE while a TE of the other strand lies in the region
\* as well.
C9_Witness ==
    /\ ret.op = "check_te_promoter"
    /\ ret.strand = "+"
    /\ ~ret.window_given
    /\ ret.result = TRUE
    /\ TEsIn(ret.chrom, "-", 0, ret.tss) # {}

\* C10 as stated: for a transcript row with GTF start s (1-based) and end e
\* (inclusive) on strand d, n_te_overlaps is the number of TEs of the contig
\* and strand d that share a base with [s - 1, e), and te_names lists exactly
\* those TEs ("None" when there are none).
C10_TranscriptOverlaps ==
    ret.op = "annotate_transcript" =>
        LET tes == TEsIn(ret.row.seqname, ret.row.strand, ret.row.start - 1, ret.row.end)
        IN  /\ ret.annotation.n_te_overlaps = Cardinality(tes)
            /\ IF tes = {} THEN ret.annotation.te_names = <<"None">>
               ELSE \E order \in [1..Cardinality(tes) -> tes] :
                        /\ \A i \in DOMAIN order : \A j \in DOMAIN order :
                               i # j => order[i] # order[j]
                        /\ ret.annotation.te_names = JoinNames(order)

\* The TSS of a transcript row: its 5' boundary, the start of a "+"
\* transcript and the end of a "-" transcript.
TSS(row) == IF row.strand = "+" THEN row.start ELSE row.end

\* C11 as stated: has_te_promoter of an annotation record is evaluated at the
\* strand-dependent TSS of the transcript: for a "+" transcript it tells
\* whether a TE of the strand lies in [max(0, start - 2000), start), for a "-"
\* transcript whether one lies in [end, end + 2000).
C11_PromoterAtTSS ==
    (ret.op = "annotate_transcript" /\ ret.row.strand \in {"+", "-"}) =>
        ret.annotation.has_te_promoter =
            (TEsIn(ret.row.seqname, ret.row.strand,
                   PromoterStart(TSS(ret.row), ret.row.strand, 2000),
                   PromoterEnd(TSS(ret.row), ret.row.strand, 2000)) # {})

\* The attribute string has an item of that key.
HasKey(attr_string, key) ==
    \E i \in DOMAIN attr_string :
        Len(attr_string[i]) >= 1 /\ attr_string[i][1] = key

GoodTranscripts(gtf) ==
    {i \in DOMAIN gtf : gtf[i].feature = "transcript" /\ gtf[i].attribute # NaN}

\* C13 as stated: annotate_gtf processes the transcripts independently: if
\* a single transcript fails, the batch is not aborted and an annotation
\* record is produced for every other transcript row of the input.
C13_BatchContinues ==
    ret.op = "annotate_gtf" =>
        /\ Len(ret.result) >= Cardinality(GoodTranscripts(ret.gtf))
        /\ \A i \in GoodTranscripts(ret.gtf) :
               \E j \in DOMAIN ret.result :
                   /\ ret.result[j].chrom = ret.gtf[i].seqname
                   /\ ret.result[j].start = ret.gtf[i].start
                   /\ ret.result[j].end = ret.gtf[i].end
                   /\ ret.result[j].transcript_id = "TX1"

\* quantify_all has returned its data frame.
Quantified == quantifier.pc \in {"quantified", "fractions", "genes", "done"}

\* count / (length / 1000)
RpkOf(r) == Frac(r.count * 1000, r.length)

\* C14: after quantify_all, if a transcript has a nonzero count, each tpm is
\* (rpk / sum of rpk) * 1e6 with rpk = count / (length / 1000), and the tpm
\* of all records sum to 1e6; if every count is zero, every tpm is 0.
C14_TpmNormalized ==
    Quantified =>
        LET df == quantifier.transcript_df
            rpk_sum == FracSum([i \in DOMAIN df |-> RpkOf(df[i])])
        IN  IF \E i \in DOMAIN df : df[i].count # 0
            THEN /\ \A i \in DOMAIN df :
                        df[i].tpm = FracMul(FracDiv(RpkOf(df[i]), rpk_sum), Frac(1000000, 1))
                 /\ FracSum([i \in DOMAIN df |-> df[i].tpm]) = Frac(1000000, 1)
            ELSE \A i \in DOMAIN df : df[i].tpm = Zero

\* C14 witness: quantify_all returned records of different nonzero tpm.
C14_Witness ==
    /\ Quantified
    /\ \E i \in DOMAIN quantifier.transcript_df :
       \E j \in DOMAIN quantifier.transcript_df :
           /\ quantifier.transcript_df[i].tpm[1] > 0
           /\ quantifier.transcript_df[j].tpm[1] > 0
           /\ quantifier.transcript_df[i].tpm # quantifier.transcript_df[j].tpm

\* Counting and coverage fail for the transcript: its contig is absent from
\* the read source, or its region is malformed.
Failing(t) ==
    \/ t.seqname \notin quantifier.config.bam_file.references
    \/ t.start - 1 > t.end

\* C15: in quantify_all, a transcript for which counting or coverage fails
\* does not end the run: one record is emitted for every transcript, and
\* the record of the failing transcript has count 0, coverage 0.0, and tpm
\* 0.0 and fpkm 0.0 after the normalization pass.
C15_FailingTranscriptZero ==
    /\ quantifier.pc = "counting" => Len(quantifier.results) = quantifier.idx - 1
    /\ quantifier.pc \in {"raising", "raised"} => quantifier.transcripts = << >>
    /\ Quantified =>
           /\ Len(quantifier.transcript_df) = Len(quantifier.transcripts)
           /\ \A i \in DOMAIN quantifier.transcripts :
                  LET t == quantifier.transcripts[i]
                      r == quantifier.transcript_df[i]
                  IN  /\ r.transcript_id = t.transcript_id
                      /\ Failing(t) =>
                             /\ r.count = 0
                             /\ r.coverage = Zero
                             /\ r.tpm = Zero
                             /\ r.fpkm = Zero

\* C15 witness: quantify_all returned the records of a transcript on a
\* contig the read source does not have and of a transcript with reads.
C15_Witness ==
    /\ Quantified
    /\ \E i \in DOMAIN quantifier.transcripts : \E j \in DOMAIN quantifier.transcripts :
           /\ quantifier.transcripts[i].seqname = "cU"
           /\ quantifier.transcript_df[i].tpm = Zero
           /\ quantifier.transcript_df[j].count > 0
           /\ quantifier.transcript_df[j].tpm = Frac(1000000, 1)

\* C16: normalization is a barrier: no tpm or fpkm is computed or emitted
\* before the raw count of every transcript has been computed, and the
\* normalization pass runs once, after the counting loop has finished.
C16_NormalizationBarrier ==
    /\ quantifier.passes <= 1
    /\ quantifier.pc = "counting" =>
           /\ quantifier.passes = 0
           /\ quantifier.transcript_df = << >>
           /\ \A i \in DOMAIN quantifier.results :
                  {"tpm", "fpkm"} \cap DOMAIN quantifier.results[i] = {}
    /\ quantifier.passes = 1 =>
           /\ Len(quantifier.results) = Len(quantifier.transcripts)
           /\ quantifier.pc \notin {"init", "load_gtf", "entered", "counting"}
    /\ quantifier.transcript_df # << >> => quantifier.passes = 1
    /\ Quantified => quantifier.passes = 1

\* C16 witness: the normalization pass has run over the counts of two
\* transcripts.
C16_Witness ==
    /\ quantifier.pc = "quantified"
    /\ quantifier.passes = 1
    /\ Len(quantifier.transcripts) >= 2
    /\ \A i \in DOMAIN quantifier.transcript_df :
           {"tpm", "fpkm"} \subseteq DOMAIN quantifier.transcript_df[i]

\* The rows of a data frame that belong to the gene.
RowsOfGene(df, g) == {i \in DOMAIN df : df[i].gene_id = g}

\* The genes of a data frame.
Genes(df) == {df[i].gene_id : i \in DOMAIN df} \ {NoValue}

\* A fraction between 0 and 1.
InUnit(f) == f[2] > 0 /\ FracLeq(Zero, f) /\ FracLeq(f, Frac(1, 1))

\* C17: calculate_transcript_fraction returns one row per input transcript;
\* the tpm_fraction of the transcripts of a gene whose total tpm is > 0 sum
\* to 1; every count_fraction and tpm_fraction lies in [0, 1]; a gene total
\* of 0 gives the fraction 0.
C17_TranscriptFractions ==
    quantifier.fraction_df # << >> =>
        LET df == quantifier.transcript_df
            out == quantifier.fraction_df
        IN  /\ Len(out) = Len(df)
            /\ \A i \in DOMAIN df :
                   /\ out[i].transcript_id = df[i].transcript_id
                   /\ InUnit(out[i].count_fraction)
                   /\ InUnit(out[i].tpm_fraction)
            /\ \A g \in Genes(df) :
                   LET rows == RowsOfGene(df, g)
                       gene_tpm == FracSum([i \in DOMAIN df |->
                                               IF i \in rows THEN df[i].tpm ELSE Zero])
                       gene_count == SumOver([i \in rows |-> df[i].count], rows, 0)
                   IN  /\ gene_tpm[1] > 0 =>
                              FracSum([i \in DOMAIN df |->
                                          IF i \in rows THEN out[i].tpm_fraction ELSE Zero])
                                  = Frac(1, 1)
                       /\ gene_tpm[1] = 0 => \A i \in rows : out[i].tpm_fraction = Zero
                       /\ gene_count = 0 => \A i \in rows : out[i].count_fraction = Zero

\* C17 witness: the fractions of two transcripts of one gene, both
\* expressed, are computed.
C17_Witness ==
    /\ quantifier.fraction_df # << >>
    /\ \E i \in DOMAIN quantifier.fraction_df : \E j \in DOMAIN quantifier.fraction_df :
           /\ i # j
           /\ quantifier.fraction_df[i].gene_id = quantifier.fraction_df[j].gene_id
           /\ quantifier.fraction_df[i].tpm_fraction = Frac(2, 3)
           /\ quantifier.fraction_df[j].tpm_fraction = Frac(1, 3)

\* C18 as stated: calculate_gene_expression produces one gene record for
\* each distinct pair (gene_id, gene_name) of the transcript records, with
\* count, tpm and fpkm the sums over the group and length the group maximum;
\* the gene counts sum to the transcript counts, also when a transcript has
\* no gene_id or no gene_name in the GTF.
C18_GeneAggregation ==
    quantifier.pc = "genes" =>
        LET df == quantifier.transcript_df
            genes == quantifier.gene_df
            pairs == {<<df[i].gene_id, df[i].gene_name>> : i \in DOMAIN df}
        IN  /\ {<<g.gene_id, g.gene_name>> : g \in genes} = pairs
            /\ Cardinality(genes) = Cardinality(pairs)
            /\ \A g \in genes :
                   LET rows == {i \in DOMAIN df :
                                   df[i].gene_id = g.gene_id /\ df[i].gene_name = g.gene_name}
                   IN  /\ g.count = SumOver([i \in rows |-> df[i].count], rows, 0)
                       /\ \A i \in rows : g.length >= df[i].length
                       /\ \E i \in rows : g.length = df[i].length
            /\ SumOver([g \in genes |-> g.count], genes, 0)
                   = IntSum([i \in DOMAIN df |-> df[i].count])

\* C19 as stated: every BAM handle an ExpressionQuantifier opened is
\* eventually closed, on every path: the normal end of the with-block, an
\* exception raised inside it, and a failure of the construction after the
\* handle was opened.
C19_HandleEventuallyClosed ==
    (quantifier.bam = "open") ~> (quantifier.bam = "closed")

\* The entries of results for the sample.
EntriesOf(k) == {j \in DOMAIN batch.results : batch.results[j].individual_id = k}

\* C20 as stated: in the batch run, a sample whose processing throws, at
\* whatever step, does not end the run: when main is over, results has one
\* entry for the sample, with status 'failed' and an error message, the
\* entry is not in the batch summary table, and every other sample was
\* processed; with one worker and with several.
C20_FailedSampleIsolated ==
    /\ batch.pc # "aborted"
    /\ batch.pc = "done" =>
           \A k \in DOMAIN batch.fates :
               /\ Cardinality(EntriesOf(k)) = 1
               /\ \A j \in EntriesOf(k) :
                      IF batch.fates[k] = "ok"
                      THEN batch.results[j].status = "success"
                      ELSE /\ batch.results[j].status = "failed"
                           /\ "error" \in DOMAIN batch.results[j]
               /\ batch.fates[k] # "ok" =>
                      \A j \in DOMAIN batch.successful :
                          batch.successful[j].individual_id # k

\* C21: in parallel mode, whatever the order in which the workers finish
\* and their futures are collected, results ends with exactly one entry per
\* submitted sample, and the entries written to the batch summary are, as a
\* set, those of the samples that succeeded: the same set for every order.
C21_CompletionOrderIrrelevant ==
    (batch.pc = "done" /\ batch.workers > 1) =>
        /\ Len(batch.results) = Len(batch.fates)
        /\ \A k \in DOMAIN batch.fates : Cardinality(EntriesOf(k)) = 1
        /\ Elements(batch.successful)
               = {[individual_id |-> k, status |-> "success"] :
                      k \in {j \in DOMAIN batch.fates : batch.fates[j] = "ok"}}

\* C21 witness: two samples whose futures were collected against the order
\* of submission, the one collected first failed, the other succeeded.
C21_Witness ==
    /\ batch.pc = "done"
    /\ batch.workers > 1
    /\ Len(batch.results) = 2
    /\ batch.results[1].individual_id = 2
    /\ batch.results[1].status = "failed"
    /\ batch.results[2].individual_id = 1
    /\ batch.successful = <<[individual_id |-> 1, status |-> "success"]>>

RECURSIVE TotalLength(_)
\* The sum of the lengths of the intervals.
TotalLength(ivs) ==
    IF ivs = {} THEN 0
    ELSE LET iv == CHOOSE x \in ivs : TRUE
         IN  length(iv) + TotalLength(ivs \ {iv})

\* C27 as stated: after any sequence of add_interval and clear calls, for
\* every contig the count of get_contig_stats equals count_intervals and
\* the number of intervals get_contig_intervals enumerates, and total_bp is
\* the sum of their lengths; also when the same interval was added twice.
C27_StatsMatchIndex ==
    \A c \in Contigs :
        /\ get_contig_stats(handler, c).count = count_intervals(handler, c)
        /\ count_intervals(handler, c)
               = Cardinality(get_contig_intervals(handler, c, None))
        /\ get_contig_stats(handler, c).total_bp
               = TotalLength(get_contig_intervals(handler, c, None))

\* The operations that only read the index.
ReadOps ==
    {"find_overlaps", "get_contig_intervals", "get_contig_stats", "has_contig",
     "count_intervals", "merge_intervals"}

\* What the caller can see of the index h: the contigs, and the stored
\* intervals and the statistics of every contig.
Visible(h) ==
    [contigs |-> get_contigs(h),
     stored |-> [c \in Contigs |-> get_contig_intervals(h, c, None)],
     stats |-> [c \in Contigs |-> get_contig_stats(h, c)],
     all_stats |-> h.contig_stats]

\* C28: find_overlaps, get_contig_intervals, get_contig_stats, has_contig,
\* count_intervals and merge_intervals leave the index as they found it:
\* get_contigs(), the stored intervals and the statistics of every contig
\* are unchanged, and a query of an unknown contig creates no entry for it.
C28_ReadsLeaveIndex ==
    ret.op \in ReadOps =>
        /\ ret.raised = "ok"
        /\ Visible(handler) = Visible(ret.before)
        /\ ret.chrom \notin get_contigs(ret.before) => ret.chrom \notin get_contigs(handler)

\* C28 witness: a read operation asked about a contig never inserted,
\* while the index holds intervals of another contig.
C28_Witness ==
    /\ ret.op \in ReadOps
    /\ ret.chrom # None
    /\ ret.chrom \notin inserted
    /\ ret.op \in {"has_contig", "merge_intervals"}
    /\ get_contigs(handler) # {}

\* C29: clear(chrom) removes the intervals and the statistics of chrom:
\* afterwards find_overlaps(chrom, ...) is empty, get_contig_stats(chrom) is
\* {0, 0}, has_contig(chrom) is false and chrom is not in get_contigs();
\* every other contig keeps its intervals and statistics. On an unknown
\* contig it changes nothing and does not raise; clear() empties the index.
C29_ClearFrame ==
    ret.op = "clear" =>
        /\ ret.raised = "ok"
        /\ ret.chrom # None =>
               /\ \A start \in Ends, end \in Ends, strand \in StrandFilters :
                      find_overlaps(handler, ret.chrom, start, end, strand) = {}
               /\ get_contig_stats(handler, ret.chrom) = [count |-> 0, total_bp |-> 0]
               /\ ~has_contig(handler, ret.chrom)
               /\ ret.chrom \notin get_contigs(handler)
               /\ ret.chrom \notin DOMAIN handler.contig_stats
               /\ \A c \in Contigs \ {ret.chrom} :
                      /\ get_contig_intervals(handler, c, None)
                             = get_contig_intervals(ret.before, c, None)
                      /\ get_contig_stats(handler, c) = get_contig_stats(ret.before, c)
                      /\ has_contig(handler, c) = has_contig(ret.before, c)
               /\ ret.chrom \notin get_contigs(ret.before) => handler = ret.before
        /\ ret.chrom = None =>
               /\ get_contigs(handler) = {}
               /\ handler.contig_stats = EmptyDict
               /\ count_intervals(handler, None) = 0

\* C29 witness: clear(chrom) of a contig that held intervals, while
\* another contig holds intervals too.
C29_Witness ==
    /\ ret.op = "clear"
    /\ ret.chrom # None
    /\ has_contig(ret.before, ret.chrom)
    /\ \E c \in Contigs \ {ret.chrom} : has_contig(handler, c)

\* The sum of the depths of the positions of [start, end).
DepthSum(bam, chrom, start, end) ==
    SumOver([pos \in start..(end - 1) |-> depth(bam, chrom, pos)], start..(end - 1), 0)

\* C24 as stated: the coverage of a quantified transcript is the mean
\* per-base depth of its span, the sum of the depths of the positions of
\* [start, end) divided by end - start, and 0.0 when no base of the span is
\* covered.
C24_CoverageIsSpanMean ==
    \A i \in DOMAIN quantifier.results :
        LET r == quantifier.results[i]
            bam == quantifier.config.bam_file
        IN  ("length" \in DOMAIN r /\ r.chrom \in bam.references /\ r.start < r.end) =>
                r.coverage = Frac(DepthSum(bam, r.chrom, r.start, r.end), r.end - r.start)

\* C26: stranded = True changes nothing: for every read and transcript
\* strand _filter_read returns what it returns with stranded = False, which
\* is true iff read.mapping_quality >= min_mapq.
C26_StrandedIsNoOp ==
    ret.op = "filter_read" =>
        /\ ret.result = filter_read(ret.read, ret.strand, ret.min_mapq, FALSE)
        /\ ret.result = (ret.read.mapq >= ret.min_mapq)

\* C26 witness: with stranded = True a read of the reverse orientation is
\* counted for a transcript of the + strand.
C26_Witness ==
    /\ ret.op = "filter_read"
    /\ ret.stranded
    /\ ret.read.is_reverse
    /\ ret.strand = "+"
    /\ ret.result

\* The rows of the contig in the TE reference file of the loader.
RowsOf(contig) ==
    {loader.config.rmsk_bed[contig][i] : i \in DOMAIN loader.config.rmsk_bed[contig]}

\* The interval a record stands for: name, score and strand at their
\* defaults when the record has no such field.
IntervalOf(fields) ==
    GenomicInterval(fields[1], fields[2], fields[3],
                    IF Len(fields) > 5 THEN fields[6] ELSE ".",
                    IF Len(fields) > 3 THEN fields[4] ELSE << >>,
                    IF Len(fields) > 4 THEN fields[5] ELSE 0,
                    EmptyDict)

\* The record passes the validation of GenomicInterval.
Accepted(fields) ==
    post_init(fields[2], fields[3], IF Len(fields) > 5 THEN fields[6] ELSE ".") = "ok"

\* C22 as stated: the load of the TE reference inserts every record that
\* has at least contig, start and end with end > start, with the defaults
\* for the name, score and strand it lacks, and passes over every record
\* with end <= start without an error and without an insertion. (Files
\* without a record of a negative start or an unknown strand.)
C22_LoadInsertsEveryRecord ==
    (/\ loader.pc = "done"
     /\ \A c \in Contigs : \A fields \in RowsOf(c) :
            fields[3] > fields[2] => Accepted(fields)) =>
        /\ loader.raised = "ok"
        /\ \A c \in Contigs : \A fields \in RowsOf(c) :
               IF fields[3] > fields[2]
               THEN IntervalOf(fields) \in get_contig_intervals(handler, c, None)
               ELSE \A iv \in get_contig_intervals(handler, c, None) :
                        ~(iv.start = fields[2] /\ iv.end = fields[3])

\* C23 as stated: a dictionary that is given and cannot be loaded, the
\* file being missing or unreadable, does not make the creation of the
\* annotator fail: its mapping is empty, a warning is logged, and the
\* annotator is ready.
C23_DictionaryFailureDegrades ==
    \A attr \in {"gencode_plus_dict", "gencode_minus_dict"} :
        loader.pc # "none" /\ loader.config[attr] \in {"missing", "unreadable"} =>
            /\ loader.pc # "failed"
            /\ loader.pc = "done" =>
                   /\ pc = "ready"
                   /\ attr \in loader.warnings
                   /\ (IF attr = "gencode_plus_dict" THEN loader.gencode_plus
                       ELSE loader.gencode_minus) = EmptyDict

\* C30 as stated: a record of a contig that is rejected during the load
\* costs that record only: every valid record of the same contig, those
\* after the rejected one included, and every valid record of the other
\* contigs is inserted. (Records of six fields.)
C30_RejectionLosesOneRecord ==
    loader.pc = "done" =>
        \A c \in Contigs : \A fields \in RowsOf(c) :
            (Len(fields) >= 6 /\ fields[3] > fields[2] /\ Accepted(fields)) =>
                IntervalOf(fields) \in get_contig_intervals(handler, c, None)

\* C25 as stated: a missing BAM file or a missing BAM index is reported
\* before any processing: when ambrosia_workflow is left by the error of
\* QuantificationConfig, no transcript has been annotated and no output
\* file has been written.
C25_ConfigErrorBeforeProcessing ==
    (/\ workflow.pc = "failed"
     /\ workflow.raised_by = "QuantificationConfig"
     /\ ~(workflow.inputs.bam_exists /\ workflow.inputs.bai_exists)) =>
        /\ workflow.annotated = 0
        /\ workflow.written = {}

====
